---- MODULE Spec2Model ----
(***************************************************************************)
(* package-assistant: the package-manager abstraction (src/src/package).   *)
(*                                                                         *)
(* Every operation of the crate is a synchronous call; an action of this   *)
(* module is one call of one operation.  The call's inputs (its arguments  *)
(* and what the environment answers: subprocess outputs, archive contents, *)
(* directory listings) are drawn from bounded sets by the initial state    *)
(* and kept in `args`; the value the call returns is kept in `result`; the *)
(* subprocesses it launched are kept, in order, in `spawned`.              *)
(*                                                                         *)
(* Text is a sequence of one-character strings, so that prefix tests,      *)
(* concatenation, line splitting and number parsing are computed.          *)
(***************************************************************************)
EXTENDS Integers, Sequences, FiniteSets, TLC

VARIABLES
    pc,        \* "call" before the operation runs, "done" once it returned
    op,        \* the operation called
    args,      \* its inputs
    result,    \* its return value: Ok(v) or Err(e)
    spawned,   \* the subprocesses it launched: <<[program, argv]>>
    data       \* the stored Data file (storage/data.rs): [update_timestamp]

vars == <<pc, op, args, result, spawned, data>>

(***************************************************************************)
(* Bounds of the model.                                                    *)
(***************************************************************************)
MaxTs == 2          \* timestamps range over 0..MaxTs
MaxLog == 2         \* changelog entries per archive (archive reader)
MaxNameLen == 2     \* length of the texts matches_query is applied to
MaxNodes == 3       \* files and directories below the root of a walked tree
MaxWalkTs == 1      \* timestamps in walked trees range over 0..MaxWalkTs
MaxItems == 2       \* markup items in zypper's output
MaxLines == 2       \* lines in dnf's output
MaxCmdLen == 2      \* length of a shell command

(***************************************************************************)
(* Result<T, Error> (package/error.rs) and Option<T>.                      *)
(***************************************************************************)
Ok(v) == [ok |-> TRUE, val |-> v, err |-> <<>>]
Err(e) == [ok |-> FALSE, val |-> <<>>, err |-> e]

None == [some |-> FALSE, v |-> <<>>]
Some(x) == [some |-> TRUE, v |-> x]

unwrap_or(r, default) == IF r.ok THEN r.val ELSE default

(***************************************************************************)
(* Text helpers.                                                           *)
(***************************************************************************)
Digits == <<"0", "1", "2", "3", "4", "5", "6", "7", "8", "9">>

DigitValue(ch) == CHOOSE d \in 0..9 : Digits[d + 1] = ch

IsDigit(ch) == \E d \in 0..9 : Digits[d + 1] = ch

RECURSIVE Dec(_)
\* the decimal text of a natural number, as rpm prints %{CHANGELOGTIME}
Dec(n) == IF n < 10 THEN <<Digits[n + 1]>> ELSE Dec(n \div 10) \o <<Digits[(n % 10) + 1]>>

RECURSIVE DecValue(_)
DecValue(s) ==
    IF Len(s) = 0 THEN 0
    ELSE 10 * DecValue(SubSeq(s, 1, Len(s) - 1)) + DigitValue(s[Len(s)])

\* str::parse::<u64>: an optional "+", then one or more decimal digits.
ParseU64(s) ==
    LET body == IF Len(s) > 0 /\ s[1] = "+" THEN Tail(s) ELSE s
    IN  IF Len(body) = 0 \/ \E i \in 1..Len(body) : ~IsDigit(body[i])
        THEN Err(<<"ParseIntError">>)
        ELSE Ok(DecValue(body))

\* str::lines().next(): None for the empty text, else the text before the
\* first line feed, without a carriage return that ends it.
FirstLine(s) ==
    IF Len(s) = 0 THEN None
    ELSE LET nl == {i \in 1..Len(s) : s[i] = "\n"}
             end == IF nl = {} THEN Len(s)
                    ELSE (CHOOSE i \in nl : \A j \in nl : i <= j) - 1
             line == SubSeq(s, 1, end)
         IN  IF nl # {} /\ Len(line) > 0 /\ line[Len(line)] = "\r"
             THEN Some(SubSeq(line, 1, Len(line) - 1))
             ELSE Some(line)

\* String::from_utf8 on captured bytes: [utf8, text].
from_utf8(bytes) == IF bytes.utf8 THEN Ok(bytes.text) ELSE Err(<<"Utf8StringError">>)

Bytes(text) == [utf8 |-> TRUE, text |-> text]
BadBytes == [utf8 |-> FALSE, text |-> <<>>]

(***************************************************************************)
(* utilities::process_cmd_output.  `get_error` is None or Some(kind), the  *)
(* kind of error the caller's constructor builds from the stderr text.     *)
(***************************************************************************)
process_cmd_output(output, get_error) ==
    IF output.status # 0 /\ get_error.some
    THEN LET stderr == from_utf8(output.stderr)
         IN  IF stderr.ok THEN Err(<<get_error.v, stderr.val>>) ELSE stderr
    ELSE from_utf8(output.stdout)

(***************************************************************************)
(* utilities::matches_query: str::starts_with, a case-sensitive prefix     *)
(* test.                                                                   *)
(***************************************************************************)
matches_query_ignore_case(name, query) ==
    LET Fold(ch) == IF ch = "F" THEN "f" ELSE IF ch = "O" THEN "o" ELSE ch
    IN  /\ Len(query) <= Len(name)
        /\ \A i \in 1..Len(query) : Fold(name[i]) = Fold(query[i])

matches_query(name, query) ==
    /\ Len(query) <= Len(name)
    /\ \A i \in 1..Len(query) : name[i] = query[i]

(***************************************************************************)
(* utilities::get_installed_pkg_timestamp.  `rpm` is what launching        *)
(* `rpm -q <name> --qf %{CHANGELOGTIME}` answers: [spawn, status, stdout,  *)
(* stderr].                                                                *)
(***************************************************************************)
RpmCommand(name) == [program |-> "rpm", argv |-> <<<<"-", "q">>, name>>]

get_installed_pkg_timestamp(rpm) ==
    IF ~rpm.spawn THEN Err(<<"IO">>)
    ELSE LET stdout == process_cmd_output(rpm, Some("RPMCommandError"))
         IN  IF ~stdout.ok THEN stdout
             ELSE LET first_line == FirstLine(stdout.val)
                  IN  IF first_line.some THEN ParseU64(first_line.v)
                      ELSE Err(<<"InvalidRPMResponse">>)

\* utilities.rs:77: the threshold the entries are filtered against.
threshold_ignores_rpm(rpm) == 0

installed_threshold(rpm) == unwrap_or(get_installed_pkg_timestamp(rpm), 0)

\* utilities.rs:80: the filter's predicate.
keeps_entry_inclusive(c, timestamp) == c.timestamp >= timestamp

keeps_entry(c, timestamp) == c.timestamp > timestamp

RECURSIVE filter_map_entries(_, _)
\* .filter(|c| c.timestamp > timestamp).map(|c| c.description).collect()
filter_map_entries(entries, timestamp) ==
    IF Len(entries) = 0 THEN <<>>
    ELSE LET rest == filter_map_entries(Tail(entries), timestamp)
         IN  IF keeps_entry(Head(entries), timestamp)
             THEN <<Head(entries).description>> \o rest
             ELSE rest

(***************************************************************************)
(* utilities::get_rpm_changelogs_result.  `file` is what the rpm crate     *)
(* finds at the path: [status, name, log] with status "ok", or the step    *)
(* that fails: "open_err" (Package::open), "name_err" (get_name),          *)
(* "log_err" (get_changelog_entries).  `rpmdb` maps a package name to the  *)
(* answer of the rpm query for it.                                         *)
(***************************************************************************)
ArchiveFile(status, name, log) == [status |-> status, name |-> name, log |-> log]

\* a reader that passes the failure of the rpm query on to its caller
query_error_propagates(query, file, rpmdb) ==
    IF file.status \in {"open_err", "name_err"} THEN Err(<<"RPMError">>)
    ELSE IF query.some /\ ~matches_query(file.name, query.v)
    THEN Err(<<"PackageNameDoesNotMatch", file.name, query.v>>)
    ELSE LET timestamp == get_installed_pkg_timestamp(rpmdb[file.name])
         IN  IF ~timestamp.ok THEN timestamp
             ELSE IF file.status = "log_err" THEN Err(<<"RPMError">>)
             ELSE Ok([name |-> file.name,
                      changelogs |-> filter_map_entries(file.log, timestamp.val)])

\* utilities.rs:67-85
get_rpm_changelogs_result(query, file, rpmdb) ==
    IF file.status \in {"open_err", "name_err"} THEN Err(<<"RPMError">>)
    ELSE IF query.some /\ ~matches_query(file.name, query.v)
    THEN Err(<<"PackageNameDoesNotMatch", file.name, query.v>>)
    ELSE LET timestamp == installed_threshold(rpmdb[file.name])
         IN  IF file.status = "log_err" THEN Err(<<"RPMError">>)
             ELSE Ok([name |-> file.name,
                      changelogs |-> filter_map_entries(file.log, timestamp)])

\* the rpm queries get_rpm_changelogs_result launches
rpm_queries_of_file(query, file) ==
    IF file.status \in {"open_err", "name_err"} THEN <<>>
    ELSE IF query.some /\ ~matches_query(file.name, query.v) THEN <<>>
    ELSE <<RpmCommand(file.name)>>

(***************************************************************************)
(* PackageManager::get_package_changelogs_string.  Both backends implement *)
(* get_package_changelogs_result by get_rpm_changelogs_result              *)
(* (zypper.rs:23, dnf.rs:20).                                              *)
(***************************************************************************)
Banner(name) == <<"=", "=", "=", "=", " ">> \o name \o <<" ", "=", "=", "=", "=">>

RECURSIVE push_lines(_, _)
\* for changelog in changelogs { push_str("\n"); push_str(&changelog) }
push_lines(text, changelogs) ==
    IF Len(changelogs) = 0 THEN text
    ELSE push_lines(text \o <<"\n">> \o Head(changelogs), Tail(changelogs))

\* a manager that prints the banner of a package without changelogs
bare_banner_string(query, file, rpmdb) ==
    LET r == get_rpm_changelogs_result(query, file, rpmdb)
    IN  IF ~r.ok THEN r ELSE Ok(push_lines(Banner(r.val.name), r.val.changelogs))

get_package_changelogs_string(query, file, rpmdb) ==
    LET r == get_rpm_changelogs_result(query, file, rpmdb)
    IN  IF ~r.ok THEN r
        ELSE IF Len(r.val.changelogs) = 0 THEN Err(<<"NoChangelogsForPackage">>)
        ELSE Ok(push_lines(Banner(r.val.name), r.val.changelogs))

(***************************************************************************)
(* PackageManager::get_dir_changelogs.  A path is a node [kind, file,      *)
(* children]: "dir" (read_dir lists `children`), "unlistable" (read_dir    *)
(* fails), "file", "entry_err" (the listing yields an error for the        *)
(* entry), "type_err" (entry.file_type() fails).                           *)
(***************************************************************************)
NoFile == ArchiveFile("none", <<>>, <<>>)
FileNode(f) == [kind |-> "file", file |-> f, children |-> <<>>]
DirNode(entries) == [kind |-> "dir", file |-> NoFile, children |-> entries]
OtherNode(kind) == [kind |-> kind, file |-> NoFile, children |-> <<>>]

RECURSIVE join_changelogs_leading(_, _)
\* a join that puts the blank line before the first changelog too
join_changelogs_leading(changelogs, i) ==
    IF i > Len(changelogs) THEN <<>>
    ELSE <<"\n", "\n">> \o changelogs[i] \o join_changelogs_leading(changelogs, i + 1)

RECURSIVE join_changelogs(_, _)
\* package_manager.rs:70-76: "\n\n" before every changelog but the first
join_changelogs(changelogs, i) ==
    IF i > Len(changelogs) THEN <<>>
    ELSE (IF i > 1 THEN <<"\n", "\n">> ELSE <<>>) \o changelogs[i]
         \o join_changelogs(changelogs, i + 1)

\* a walker that gives up at the first entry that fails
dir_outcome_first_error(results) ==
    IF \E i \in DOMAIN results : ~results[i].ok
    THEN results[CHOOSE i \in DOMAIN results :
                    ~results[i].ok /\ \A j \in 1..(i - 1) : results[j].ok]
    ELSE IF Len(results) = 0 THEN Err(<<"NoChangelogsInDirectory">>)
    ELSE Ok(join_changelogs([i \in DOMAIN results |-> results[i].val], 1))

\* a walker for which an empty directory is an empty success
dir_outcome_empty_ok(results) ==
    LET oks == SelectSeq(results, LAMBDA r : r.ok)
    IN  Ok(join_changelogs([i \in DOMAIN oks |-> oks[i].val], 1))

\* package_manager.rs:63-79: keep the entries that succeeded; none is
\* NoChangelogsInDirectory, else their texts joined
dir_outcome(results) ==
    LET oks == SelectSeq(results, LAMBDA r : r.ok)
        changelogs == [i \in DOMAIN oks |-> oks[i].val]
    IN  IF Len(changelogs) = 0 THEN Err(<<"NoChangelogsInDirectory">>)
        ELSE Ok(join_changelogs(changelogs, 1))

RECURSIVE get_dir_changelogs(_, _, _)
RECURSIVE entry_result(_, _, _)

\* package_manager.rs:53-62: the closure mapped over the listing
entry_result(query, node, rpmdb) ==
    IF node.kind \in {"entry_err", "type_err"} THEN Err(<<"IO">>)
    ELSE IF node.kind \in {"dir", "unlistable"}
    THEN get_dir_changelogs(query, node, rpmdb)
    ELSE get_package_changelogs_string(query, node.file, rpmdb)

\* a walker that reports a root it cannot list as a directory without
\* changelogs
unlistable_is_nothing_found(query, path, rpmdb) ==
    IF path.kind # "dir" THEN Err(<<"NoChangelogsInDirectory">>)
    ELSE dir_outcome([i \in DOMAIN path.children |->
                         entry_result(query, path.children[i], rpmdb)])

\* package_manager.rs:51-80
get_dir_changelogs(query, path, rpmdb) ==
    IF path.kind # "dir" THEN Err(<<"IO">>)
    ELSE dir_outcome([i \in DOMAIN path.children |->
                         entry_result(query, path.children[i], rpmdb)])

RECURSIVE rpm_queries_of_dir(_, _, _)
\* the rpm queries the walk launches, in the order of the listing
rpm_queries_of_dir(query, path, i) ==
    IF path.kind # "dir" \/ i > Len(path.children) THEN <<>>
    ELSE LET node == path.children[i]
         IN  (IF node.kind = "dir" THEN rpm_queries_of_dir(query, node, 1)
              ELSE IF node.kind = "file" THEN rpm_queries_of_file(query, node.file)
              ELSE <<>>)
             \o rpm_queries_of_dir(query, path, i + 1)

(***************************************************************************)
(* ZypperManager::check_update.  The captured stdout is a sequence of      *)
(* markup items: "element" (<tag attrs> ... </tag>), "selfclosing"         *)
(* (<tag attrs/>), "text" and "malformed" (markup the reader rejects).     *)
(* quick_xml's reader, configured by Reader::from_str alone, reports a     *)
(* start tag as Event::Start, an end tag as Event::End and a self-closing  *)
(* tag as Event::Empty; it parses the attributes of a tag only when        *)
(* e.attributes() is iterated, and the iterator yields an error for an     *)
(* attribute that is malformed or repeated.                                *)
(***************************************************************************)
Attr(key, value) == [ok |-> TRUE, key |-> key, value |-> value]
BadAttr == [ok |-> FALSE, key |-> "", value |-> <<>>]

Item(form, tag, attrs) == [form |-> form, tag |-> tag, attrs |-> attrs]

Event(kind, tag, attrs) == [kind |-> kind, tag |-> tag, attrs |-> attrs]

\* the events reader.read_event() yields for one markup item
events_of_item(item) ==
    CASE item.form = "element" ->
            <<Event("Start", item.tag, item.attrs), Event("End", item.tag, <<>>)>>
      [] item.form = "selfclosing" -> <<Event("Empty", item.tag, item.attrs)>>
      [] item.form = "text" -> <<Event("Text", "", <<>>)>>
      [] OTHER -> <<Event("Error", "", <<>>)>>

RECURSIVE events_of(_)
events_of(doc) ==
    IF Len(doc) = 0 THEN <<>> ELSE events_of_item(Head(doc)) \o events_of(Tail(doc))

\* zypper.rs:67: String::from_utf8_lossy on the raw value; the value is part
\* of a stdout that String::from_utf8 accepted, so nothing is replaced
attr_to_string(attr) == attr.value

RECURSIVE read_attributes(_, _)
\* zypper.rs:43-52: acc is [name, edition, edition_old]
read_attributes(attrs, acc) ==
    IF Len(attrs) = 0 THEN Ok(acc)
    ELSE LET attr == Head(attrs)
         IN  IF ~attr.ok THEN Err(<<"XMLAttributeError">>)
             ELSE read_attributes(Tail(attrs),
                    CASE attr.key = "name" -> [acc EXCEPT !.name = attr_to_string(attr)]
                      [] attr.key = "edition" -> [acc EXCEPT !.edition = Some(attr_to_string(attr))]
                      [] attr.key = "edition-old" -> [acc EXCEPT !.edition_old = Some(attr_to_string(attr))]
                      [] OTHER -> acc)

PackageUpdateItem(name, new_version, old_version) ==
    [name |-> name, new_version |-> new_version, old_version |-> old_version]

\* a parser that takes self-closing tags for start tags too
is_update_start_or_empty(event) == event.kind \in {"Start", "Empty"} /\ event.tag = "update"

\* zypper.rs:37: Event::Start(e) if e.name().as_ref() == b"update"
is_update_start(event) == event.kind = "Start" /\ event.tag = "update"

RECURSIVE zypper_read_loop(_, _)
\* zypper.rs:35-61
zypper_read_loop(events, items) ==
    IF Len(events) = 0 THEN Ok(items)
    ELSE LET event == Head(events)
         IN  IF event.kind = "Error" THEN Err(<<"XMLError">>)
             ELSE IF is_update_start(event)
             THEN LET a == read_attributes(event.attrs,
                              [name |-> <<>>, edition |-> None, edition_old |-> None])
                  IN  IF ~a.ok THEN a
                      ELSE zypper_read_loop(Tail(events),
                             IF Len(a.val.name) # 0
                             THEN Append(items, PackageUpdateItem(a.val.name,
                                                  a.val.edition, a.val.edition_old))
                             ELSE items)
             ELSE zypper_read_loop(Tail(events), items)

ZypperCommand == [program |-> "zypper", argv |-> <<"--xmlout", "lu">>]

\* a capture that takes any exit status for success
process_cmd_output_any_status(output, get_error) == from_utf8(output.stdout)

\* zypper.rs:30-31
zypper_cmd_output(output, get_error) == process_cmd_output(output, get_error)

zypper_check_update(output) ==
    IF ~output.spawn THEN Err(<<"IO">>)
    ELSE LET stdout == zypper_cmd_output(output, Some("ZypperError"))
         IN  IF ~stdout.ok THEN stdout
             ELSE zypper_read_loop(events_of(stdout.val), <<>>)

(***************************************************************************)
(* DnfManger::check_update.  The captured stdout is a sequence of lines    *)
(* [lead, fields, trail]: the words of the line, and whether white space   *)
(* precedes the first and follows the last.                                *)
(***************************************************************************)
Line(lead, fields, trail) == [lead |-> lead, fields |-> fields, trail |-> trail]

\* dnf.rs:32: the inline flags and the body of the pattern
update_line_flags == {"g", "m"}

\* the inline flags the regex crate knows; any other is a syntax error
RegexFlags == {"i", "m", "s", "R", "U", "u", "x"}

\* Regex::new
regex_new(flags) == IF flags \subseteq RegexFlags THEN Ok(flags) ELSE Err(<<"RegexError">>)

RECURSIVE words_from(_, _)
\* the words of the text from line i on, each with the line it stands on
\* and whether the end of the line follows it at once
words_from(lines, i) ==
    IF i > Len(lines) THEN <<>>
    ELSE [k \in DOMAIN lines[i].fields |->
             [word |-> lines[i].fields[k], line |-> i,
              at_end |-> k = Len(lines[i].fields) /\ ~lines[i].trail]]
         \o words_from(lines, i + 1)

RECURSIVE captures_iter(_, _)
\* the matches of ^(\S+)\s+(\S+)\s+updates$ from line i on: a match begins
\* at the start of a line, \s+ may run over line ends, and the next match
\* is looked for behind the last one
captures_iter(lines, i) ==
    IF i > Len(lines) THEN <<>>
    ELSE LET words == words_from(lines, i)
             hit == /\ ~lines[i].lead
                    /\ Len(lines[i].fields) > 0
                    /\ Len(words) >= 3
                    /\ words[3].word = "updates"
                    /\ words[3].at_end
         IN  IF hit
             THEN <<PackageUpdateItem(words[1].word, Some(words[2].word), None)>>
                  \o captures_iter(lines, words[3].line + 1)
             ELSE captures_iter(lines, i + 1)

DnfCommand == [program |-> "dnf", argv |-> <<"check-update">>]

dnf_check_update(output) ==
    IF ~output.spawn THEN Err(<<"IO">>)
    ELSE LET cmd_result == process_cmd_output(output, Some("DnfError"))
         IN  IF cmd_result.ok
             THEN LET regex == regex_new(update_line_flags)
                  IN  IF ~regex.ok THEN regex
                      ELSE Ok(captures_iter(cmd_result.val, 1))
             ELSE Ok(<<>>)

(***************************************************************************)
(* utilities::run_shell_command and run_interactive_shell_command.  Each   *)
(* yields the value returned and the subprocesses launched.  `sh` is what  *)
(* the shell answers: [spawn, status, stdout, stderr] when its output is   *)
(* captured, [spawn, wait, status] when it is waited for.                  *)
(***************************************************************************)
Outcome(value, launched) == [result |-> value, spawned |-> launched]

pkexec == <<"p", "k", "e", "x", "e", "c", " ">>

\* an executor that never asks for elevation
never_elevated(command, elevate_privileges) == command

\* utilities.rs:25 and :40
modified_command(command, elevate_privileges) ==
    IF elevate_privileges THEN pkexec \o command ELSE command

ShCommand(command) == [program |-> "sh", argv |-> <<"-c", command>>]

\* an executor that hands any command, the empty one too, to the shell
empty_command_passes(command) == FALSE

\* utilities.rs:21 and :36: command.is_empty()
is_empty_command(command) == Len(command) = 0

run_shell_command(command, elevate_privileges, get_error, sh) ==
    IF is_empty_command(command) THEN Outcome(Err(<<"EmptyCommand">>), <<>>)
    ELSE LET launched == <<ShCommand(modified_command(command, elevate_privileges))>>
         IN  IF ~sh.spawn THEN Outcome(Err(<<"IO">>), launched)
             ELSE LET r == process_cmd_output(sh, get_error)
                  IN  Outcome(IF r.ok THEN Ok(<<>>) ELSE r, launched)

run_interactive_shell_command(command, elevate_privileges, sh) ==
    IF is_empty_command(command) THEN Outcome(Err(<<"EmptyCommand">>), <<>>)
    ELSE LET launched == <<ShCommand(modified_command(command, elevate_privileges))>>
         IN  IF ~sh.spawn \/ ~sh.wait THEN Outcome(Err(<<"IO">>), launched)
             ELSE Outcome(Ok(<<>>), launched)

(***************************************************************************)
(* storage::PackageConfig and the provided methods of the PackageManager   *)
(* trait that act on it.                                                   *)
(***************************************************************************)
PackageManagerType == {"Zypper", "Dnf", "Apt", "Pacman"}

PackageConfig(package_manager, download_command, update_command, noconfirm_update_command, cached_package_path) ==
    [package_manager |-> package_manager,
     download_command |-> download_command,
     update_command |-> update_command,
     noconfirm_update_command |-> noconfirm_update_command,
     cached_package_path |-> cached_package_path]

\* package_manager: None
NoType == [some |-> FALSE, v |-> ""]

\* cached_package_path: None
NoPath == [some |-> FALSE, v |-> OtherNode("none")]

\* a factory that builds the zypper backend for whatever is selected
factory_accepts_all(config) == Ok(<<"ZypperManager">>)

\* utilities.rs:11-17
get_package_manager(config) ==
    IF config.package_manager = Some("Zypper") THEN Ok(<<"ZypperManager">>)
    ELSE IF config.package_manager = Some("Dnf") THEN Ok(<<"DnfManger">>)
    ELSE Err(<<"UnsupportedPackageManager">>)

\* a manager for which a missing path means that nothing was found
cached_missing_is_empty(config, query, rpmdb) ==
    IF config.cached_package_path.some
    THEN Outcome(get_dir_changelogs(query, config.cached_package_path.v, rpmdb),
                 rpm_queries_of_dir(query, config.cached_package_path.v, 1))
    ELSE Outcome(Err(<<"NoChangelogsInDirectory">>), <<>>)

\* package_manager.rs:41-47
get_cached_changelogs(config, query, rpmdb) ==
    IF config.cached_package_path.some
    THEN Outcome(get_dir_changelogs(query, config.cached_package_path.v, rpmdb),
                 rpm_queries_of_dir(query, config.cached_package_path.v, 1))
    ELSE Outcome(Err(<<"UnkownCachedPackagePath">>), <<>>)

\* a manager that downloads without asking for elevation
download_update_unelevated(config, sh) ==
    run_shell_command(config.download_command, FALSE, Some("DownloadError"), sh)

\* package_manager.rs:109-112
download_update(config, sh) ==
    run_shell_command(config.download_command, TRUE, Some("DownloadError"), sh)

\* a manager that runs update_command in both modes
do_update_one_command(config, interactive, sh) ==
    IF interactive
    THEN run_interactive_shell_command(config.update_command, TRUE, sh)
    ELSE run_shell_command(config.update_command, TRUE, Some("UpdateError"), sh)

\* package_manager.rs:114-121
do_update(config, interactive, sh) ==
    IF interactive
    THEN run_interactive_shell_command(config.update_command, TRUE, sh)
    ELSE run_shell_command(config.noconfirm_update_command, TRUE, Some("UpdateError"), sh)

(***************************************************************************)
(* Inputs of the archive reader.                                           *)
(***************************************************************************)
SeqsUpTo(S, n) == UNION {[1..k -> S] : k \in 0..n}

Timestamps == 0..MaxTs

Descriptions == {<<"x">>, <<"y">>}

Entries == [timestamp : Timestamps, description : Descriptions]

foo == <<"f", "o", "o">>
foo_libs == <<"f", "o", "o", "-", "l", "i", "b", "s">>
Foo == <<"F", "o", "o">>
oo == <<"o", "o">>

ReaderNames == {foo_libs, oo}

ReaderQueries == {None, Some(foo), Some(Foo), Some(oo), Some(<<>>)}

ReaderFiles ==
    {ArchiveFile("open_err", <<>>, <<>>), ArchiveFile("name_err", <<>>, <<>>)}
    \cup {ArchiveFile("log_err", n, <<>>) : n \in ReaderNames}
    \cup {ArchiveFile("ok", n, l) : n \in ReaderNames, l \in SeqsUpTo(Entries, MaxLog)}

RpmAnswer(spawn, status, stdout, stderr) ==
    [spawn |-> spawn, status |-> status, stdout |-> stdout, stderr |-> stderr]

none_text == <<"(", "n", "o", "n", "e", ")">>

\* what `rpm -q` can answer: it cannot be launched; the package is not
\* installed (status 1); no output; "(none)"; a timestamp, alone or followed
\* by a second line.
RpmAnswers ==
    {RpmAnswer(FALSE, 0, Bytes(<<>>), Bytes(<<>>)),
     RpmAnswer(TRUE, 1, Bytes(<<>>), Bytes(<<"e">>)),
     RpmAnswer(TRUE, 0, Bytes(<<>>), Bytes(<<>>)),
     RpmAnswer(TRUE, 0, Bytes(none_text), Bytes(<<>>)),
     RpmAnswer(TRUE, 0, BadBytes, Bytes(<<>>)),
     RpmAnswer(TRUE, 1, Bytes(<<>>), BadBytes)}
    \cup {RpmAnswer(TRUE, 0, Bytes(Dec(t)), Bytes(<<>>)) : t \in Timestamps}
    \cup {RpmAnswer(TRUE, 0, Bytes(Dec(1) \o <<"\n", "7">>), Bytes(<<>>))}

DataFiles == [update_timestamp : Timestamps]

(***************************************************************************)
(* The archive reader: one call of get_rpm_changelogs_result on one file,  *)
(* or of matches_query on two texts.                                       *)
(***************************************************************************)
Texts == SeqsUpTo({"f", "F", "o"}, MaxNameLen)

Pending == Err(<<"pending">>)

Call(name, inputs) ==
    /\ pc = "call"
    /\ op = name
    /\ args \in inputs
    /\ result = Pending
    /\ spawned = <<>>

Return(value, launched) ==
    /\ pc' = "done"
    /\ result' = value
    /\ spawned' = launched
    /\ UNCHANGED <<op, args, data>>

InitRead ==
    /\ data \in DataFiles
    /\ \/ Call("get_rpm_changelogs_result",
                [query : ReaderQueries, file : ReaderFiles, rpm : RpmAnswers])
       \/ Call("matches_query", [name : Texts, query : Texts])

GetRpmChangelogsResult ==
    /\ pc = "call"
    /\ op = "get_rpm_changelogs_result"
    /\ Return(get_rpm_changelogs_result(args.query, args.file,
                                        [n \in {args.file.name} |-> args.rpm]),
              rpm_queries_of_file(args.query, args.file))

MatchesQuery ==
    /\ pc = "call"
    /\ op = "matches_query"
    /\ Return(Ok(matches_query(args.name, args.query)), <<>>)

NextRead == GetRpmChangelogsResult \/ MatchesQuery

SpecRead == InitRead /\ [][NextRead]_vars

(***************************************************************************)
(* Properties of the archive reader.                                       *)
(***************************************************************************)
ReadDone == pc = "done" /\ op = "get_rpm_changelogs_result"

\* the descriptions of the entries of `log` newer than `t`, in the log's order
NewerThan(log, t) ==
    LET kept == SelectSeq(log, LAMBDA e : e.timestamp > t)
    IN  [i \in 1..Len(kept) |-> kept[i].description]

\* `t` is the first line of what a successful rpm query printed
RpmReports(rpm, t) ==
    /\ rpm.spawn
    /\ rpm.status = 0
    /\ rpm.stdout.utf8
    /\ \E k \in 0..Len(rpm.stdout.text) :
          /\ SubSeq(rpm.stdout.text, 1, k) = Dec(t)
          /\ k < Len(rpm.stdout.text) => rpm.stdout.text[k + 1] = "\n"

\* result position of log entry i, when the entries at `kept` are returned
Rank(kept, i) == Cardinality({j \in kept : j <= i})

\* the reader returned exactly the entries at the indices `kept`, in order
ReturnsExactly(kept) ==
    /\ Len(result.val.changelogs) = Cardinality(kept)
    /\ \A i \in kept :
          result.val.changelogs[Rank(kept, i)] = args.file.log[i].description

\* C3 as stated: strictly newer entries are returned and, when the threshold
\* is 0, every entry of the archive is returned.
C3_Original ==
    ReadDone /\ result.ok =>
        LET t == installed_threshold(args.rpm)
            log == args.file.log
        IN  /\ ReturnsExactly({i \in DOMAIN log : log[i].timestamp > t})
            /\ t = 0 => ReturnsExactly(DOMAIN log)

\* C3 (amended): the reader returns exactly the entries whose timestamp is
\* greater than the threshold: an entry at the threshold is left out, and
\* with threshold 0 every entry with a timestamp above 0 is returned.
C3_StrictFilter ==
    ReadDone /\ result.ok =>
        LET t == installed_threshold(args.rpm)
            log == args.file.log
        IN  /\ ReturnsExactly({i \in DOMAIN log : log[i].timestamp > t})
            /\ \A i \in DOMAIN log :
                  log[i].timestamp = t => ~ReturnsExactly(DOMAIN log)
            /\ t = 0 => ReturnsExactly({i \in DOMAIN log : log[i].timestamp > 0})

\* an archive with an entry at the threshold and a newer one was read
C3_Witness ==
    /\ ReadDone
    /\ result.ok
    /\ \E i, j \in DOMAIN args.file.log :
          /\ args.file.log[i].timestamp = installed_threshold(args.rpm)
          /\ args.file.log[j].timestamp > installed_threshold(args.rpm)
    /\ Len(result.val.changelogs) = 1

IsPrefix(p, s) == \E k \in 0..Len(s) : SubSeq(s, 1, k) = p

\* C5: a present query matches exactly the names it is a case-sensitive
\* prefix of; a name it does not match fails the read with
\* PackageNameDoesNotMatch(name, query); an absent query matches every name.
C5_PrefixMatch ==
    /\ pc = "done" /\ op = "matches_query" =>
          result.val = IsPrefix(args.query, args.name)
    /\ ReadDone /\ args.file.status \notin {"open_err", "name_err"} =>
          LET mismatch == Err(<<"PackageNameDoesNotMatch", args.file.name, args.query.v>>)
          IN  IF args.query.some /\ ~IsPrefix(args.query.v, args.file.name)
              THEN result = mismatch
              ELSE result.ok \/ result.err[1] # "PackageNameDoesNotMatch"
    /\ ReadDone /\ args.file.name = foo_libs =>
          /\ args.query = Some(foo) => result.err # <<"PackageNameDoesNotMatch", foo_libs, foo>>
          /\ args.query = Some(Foo) => result.err = <<"PackageNameDoesNotMatch", foo_libs, Foo>>
          /\ args.query = Some(oo) => result.err = <<"PackageNameDoesNotMatch", foo_libs, oo>>

\* "foo-libs" was read under the query "Foo" and refused
C5_Witness ==
    /\ ReadDone
    /\ args.file.name = foo_libs
    /\ args.query = Some(Foo)
    /\ result = Err(<<"PackageNameDoesNotMatch", foo_libs, Foo>>)

(***************************************************************************)
(* The directory walker: one call of get_dir_changelogs on a tree.         *)
(***************************************************************************)
WalkNames == {foo, oo}

WalkQueries == {None, Some(foo)}

WalkEntries == {[timestamp |-> t, description |-> <<"c">> \o Dec(t)] : t \in 0..MaxWalkTs}

WalkFiles ==
    {ArchiveFile("open_err", <<>>, <<>>)}
    \cup {ArchiveFile("ok", n, l) : n \in WalkNames, l \in SeqsUpTo(WalkEntries, 1)}

\* the nodes without listed entries
Leaves ==
    {FileNode(f) : f \in WalkFiles}
    \cup {DirNode(<<>>), OtherNode("unlistable"), OtherNode("entry_err"), OtherNode("type_err")}

RECURSIVE ForestsOf(_)
\* the listings holding n nodes in all, at any depth
ForestsOf(n) ==
    IF n = 0 THEN {<<>>}
    ELSE UNION {
        {<<t>> \o rest :
            t \in (IF k = 1 THEN Leaves
                   ELSE {DirNode(sub) : sub \in ForestsOf(k - 1)}),
            rest \in ForestsOf(n - k)} : k \in 1..n}

WalkRoots ==
    {OtherNode("unlistable")}
    \cup {DirNode(entries) : entries \in UNION {ForestsOf(n) : n \in 0..MaxNodes}}

\* the package is not installed (threshold 0), or installed with a changelog
\* at a positive timestamp
WalkRpmAnswers ==
    {RpmAnswer(TRUE, 1, Bytes(<<>>), Bytes(<<"e">>))}
    \cup {RpmAnswer(TRUE, 0, Bytes(Dec(t)), Bytes(<<>>)) : t \in 1..MaxWalkTs}

InitWalk ==
    /\ data = [update_timestamp |-> 0]
    /\ Call("get_dir_changelogs",
            [query : WalkQueries, path : WalkRoots, rpmdb : [WalkNames -> WalkRpmAnswers]])

GetDirChangelogs ==
    /\ pc = "call"
    /\ op = "get_dir_changelogs"
    /\ Return(get_dir_changelogs(args.query, args.path, args.rpmdb),
              rpm_queries_of_dir(args.query, args.path, 1))

NextWalk == GetDirChangelogs

SpecWalk == InitWalk /\ [][NextWalk]_vars

(***************************************************************************)
(* Properties of the directory walker.                                     *)
(***************************************************************************)
WalkDone == pc = "done" /\ op = "get_dir_changelogs"

RECURSIVE ListedFiles(_)
\* the archives the tree holds, at any depth, below directories that list
ListedFiles(path) ==
    IF path.kind # "dir" THEN {}
    ELSE UNION {IF path.children[i].kind = "file" THEN {path.children[i].file}
                ELSE ListedFiles(path.children[i]) : i \in DOMAIN path.children}

\* the timestamp rpm reports for the package, 0 when it reports none
ReportedOrZero(rpm) ==
    IF \E t \in 0..9 : RpmReports(rpm, t)
    THEN CHOOSE t \in 0..9 : RpmReports(rpm, t)
    ELSE 0

\* a valid archive that matches the query and has an entry newer than the
\* threshold of its package
Contributes(file) ==
    /\ file.status = "ok"
    /\ args.query.some => IsPrefix(args.query.v, file.name)
    /\ \E i \in DOMAIN file.log :
          file.log[i].timestamp > ReportedOrZero(args.rpmdb[file.name])

RECURSIVE Lines(_)
Lines(texts) == IF Len(texts) = 0 THEN <<>> ELSE <<"\n">> \o Head(texts) \o Lines(Tail(texts))

\* the banner of the archive's package and, below it, its newer entries
PackageText(file) ==
    Banner(file.name) \o Lines(NewerThan(file.log, ReportedOrZero(args.rpmdb[file.name])))

Contains(text, part) ==
    \E k \in 0..(Len(text) - Len(part)) : SubSeq(text, k + 1, k + Len(part)) = part

\* C1: when the tree holds at least one valid, matching archive with an entry
\* newer than the threshold, the walk succeeds and its text contains the
\* banner and the newer entries of every such archive, whatever else fails.
C1_OneValidSuffices ==
    WalkDone /\ (\E f \in ListedFiles(args.path) : Contributes(f)) =>
        /\ result.ok
        /\ \A f \in ListedFiles(args.path) :
              Contributes(f) => Contains(result.val, PackageText(f))

\* a walk succeeded beside a malformed archive and a subdirectory that failed
C1_Witness ==
    /\ WalkDone
    /\ result.ok
    /\ \E i, j, k \in DOMAIN args.path.children :
          /\ args.path.children[i].kind = "file"
          /\ Contributes(args.path.children[i].file)
          /\ args.path.children[j].kind = "file"
          /\ args.path.children[j].file.status = "open_err"
          /\ args.path.children[k].kind \in {"dir", "unlistable"}
          /\ ~get_dir_changelogs(args.query, args.path.children[k], args.rpmdb).ok

NothingFound == Err(<<"NoChangelogsInDirectory">>)

\* the listing without its i-th entry
Without(path, i) ==
    DirNode([j \in 1..(Len(path.children) - 1) |->
                IF j < i THEN path.children[j] ELSE path.children[j + 1]])

\* a subdirectory of the root in which nothing contributes leaves the walk
\* of the root as it is without that subdirectory
EmptySubdirsDropped ==
    \A i \in DOMAIN args.path.children :
        LET sub == args.path.children[i]
        IN  sub.kind = "dir" /\ (\A f \in ListedFiles(sub) : ~Contributes(f)) =>
                result = get_dir_changelogs(args.query, Without(args.path, i), args.rpmdb)

\* C2 as stated: whenever no archive of the tree contributes, the walk fails
\* with NoChangelogsInDirectory, and a subdirectory that finds nothing is
\* dropped by its parent.
C2_Original ==
    WalkDone =>
        /\ (\A f \in ListedFiles(args.path) : ~Contributes(f)) => result = NothingFound
        /\ EmptySubdirsDropped

\* C2 (amended): whenever the root can be listed and no archive of the tree
\* contributes, the walk fails with NoChangelogsInDirectory; a subdirectory
\* that finds nothing is dropped by its parent, so that only the caller of
\* the root sees the error.
C2_NothingFound ==
    WalkDone /\ args.path.kind = "dir" =>
        /\ (\A f \in ListedFiles(args.path) : ~Contributes(f)) => result = NothingFound
        /\ EmptySubdirsDropped

\* nothing contributed at two depths: a non-matching archive in the root and
\* an archive without newer entries in a subdirectory
C2_Witness ==
    /\ WalkDone
    /\ result = NothingFound
    /\ \E i, j \in DOMAIN args.path.children :
          /\ args.path.children[i].kind = "file"
          /\ args.path.children[i].file.status = "ok"
          /\ args.query.some /\ ~IsPrefix(args.query.v, args.path.children[i].file.name)
          /\ args.path.children[j].kind = "dir"
          /\ \E f \in ListedFiles(args.path.children[j]) :
                f.status = "ok" /\ Len(f.log) > 0 /\ ~Contributes(f)

(***************************************************************************)
(* The update parsers: one call of check_update of either backend on what  *)
(* the backend's command answers.                                          *)
(***************************************************************************)
pkg == <<"p", "k", "g">>
v1 == <<"1", ".", "0">>
v2 == <<"2", ".", "0">>

\* name, edition and edition-old, each present or not, and then possibly a
\* malformed attribute
AttrLists ==
    {n \o e \o o \o b :
        n \in {<<>>, <<Attr("name", <<>>)>>, <<Attr("name", pkg)>>},
        e \in {<<>>, <<Attr("edition", v2)>>},
        o \in {<<>>, <<Attr("edition-old", v1)>>},
        b \in {<<>>, <<BadAttr>>}}

MarkupItems ==
    {Item(form, "update", attrs) : form \in {"element", "selfclosing"}, attrs \in AttrLists}
    \cup {Item("element", "source", attrs) : attrs \in {<<Attr("url", <<"u">>)>>, <<BadAttr>>}}
    \cup {Item("text", "", <<>>), Item("malformed", "", <<>>)}

CommandOutput(spawn, status, stdout, stderr) ==
    [spawn |-> spawn, status |-> status, stdout |-> stdout, stderr |-> stderr]

Stderrs == {Bytes(<<"e">>), BadBytes}

\* zypper cannot be launched; it succeeds and prints up to MaxItems items or
\* bytes that are no text; it fails, whatever it printed
ZypperOutputs ==
    {CommandOutput(FALSE, 0, Bytes(<<>>), Bytes(<<>>))}
    \cup {CommandOutput(TRUE, 0, out, Bytes(<<>>)) :
            out \in {BadBytes} \cup {Bytes(doc) : doc \in SeqsUpTo(MarkupItems, MaxItems)}}
    \cup {CommandOutput(TRUE, 1, out, err) :
            out \in {BadBytes} \cup {Bytes(doc) : doc \in SeqsUpTo(MarkupItems, 1)},
            err \in Stderrs}

DnfLines ==
    {Line(FALSE, fields, FALSE) :
        fields \in {<<>>, <<"bash.x86_64">>, <<"bash.x86_64", "5.2-1">>,
                    <<"5.2-1", "updates">>, <<"bash.x86_64", "5.2-1", "updates">>,
                    <<"bash.x86_64", "5.2-1", "fedora">>,
                    <<"bash.x86_64", "5.2-1", "updates", "updates">>}}
    \cup {Line(TRUE, <<"bash.x86_64", "5.2-1", "updates">>, FALSE),
          Line(FALSE, <<"bash.x86_64", "5.2-1", "updates">>, TRUE)}

\* dnf check-update exits with 0 (no updates), 100 (updates) or 1 (error)
DnfOutputs ==
    {CommandOutput(FALSE, 0, Bytes(<<>>), Bytes(<<>>))}
    \cup {CommandOutput(TRUE, status, out, err) :
            status \in {0, 1, 100},
            out \in {BadBytes} \cup {Bytes(lines) : lines \in SeqsUpTo(DnfLines, MaxLines)},
            err \in Stderrs}

InitUpdates ==
    /\ data = [update_timestamp |-> 0]
    /\ \/ Call("zypper_check_update", [output : ZypperOutputs])
       \/ Call("dnf_check_update", [output : DnfOutputs])

ZypperCheckUpdate ==
    /\ pc = "call"
    /\ op = "zypper_check_update"
    /\ Return(zypper_check_update(args.output), <<ZypperCommand>>)

DnfCheckUpdate ==
    /\ pc = "call"
    /\ op = "dnf_check_update"
    /\ Return(dnf_check_update(args.output), <<DnfCommand>>)

NextUpdates == ZypperCheckUpdate \/ DnfCheckUpdate

SpecUpdates == InitUpdates /\ [][NextUpdates]_vars

(***************************************************************************)
(* Properties of the update parsers.                                       *)
(***************************************************************************)
ZypperDone == pc = "done" /\ op = "zypper_check_update"

DnfDone == pc = "done" /\ op = "dnf_check_update"

\* the command was launched, exited with status 0 and printed text
Succeeded == args.output.spawn /\ args.output.status = 0 /\ args.output.stdout.utf8

Count(seq, Test(_)) == Cardinality({i \in DOMAIN seq : Test(seq[i])})

FullAttrs == <<Attr("name", pkg), Attr("edition", v2), Attr("edition-old", v1)>>

HasBadAttr(item) == \E k \in DOMAIN item.attrs : ~item.attrs[k].ok

WellFormed(doc) ==
    \A i \in DOMAIN doc : doc[i].form # "malformed" /\ ~HasBadAttr(doc[i])

\* C6 as stated: every well-formed update element with name "pkg", edition
\* "2.0" and edition-old "1.0", written <update .../>, yields exactly one
\* item pkg / 1.0 / 2.0, and an update element with an empty name yields
\* none.
C6_Original ==
    ZypperDone /\ Succeeded /\ WellFormed(args.output.stdout.text) =>
        LET doc == args.output.stdout.text
            IsFull(item) == item.tag = "update" /\ item.attrs = FullAttrs
            IsPkg(u) == u = PackageUpdateItem(pkg, Some(v2), Some(v1))
        IN  /\ result.ok
            /\ Count(result.val, IsPkg) = Count(doc, IsFull)
            /\ \A k \in DOMAIN result.val : Len(result.val[k].name) > 0

\* the words of a line of the form <name> <version> updates
IsUpdateLine(line) ==
    ~line.lead /\ ~line.trail /\ Len(line.fields) = 3 /\ line.fields[3] = "updates"

\* C7 as stated: dnf's parser yields one item (name, new version, no old
\* version) for every line of the form <name> <version> updates, in order,
\* and nothing for any other line.
C7_Original ==
    DnfDone /\ Succeeded =>
        LET hits == SelectSeq(args.output.stdout.text, IsUpdateLine)
        IN  result = Ok([k \in DOMAIN hits |->
                PackageUpdateItem(hits[k].fields[1], Some(hits[k].fields[2]), None)])

\* C8 as stated: a non-zero exit status of dnf check-update, or a failure to
\* construct the line pattern, gives an empty list and never an error.
C8_Original ==
    (/\ DnfDone
     /\ args.output.spawn
     /\ (args.output.status # 0 \/ ~regex_new(update_line_flags).ok))
    => result = Ok(<<>>)

\* C9 as stated: a non-zero exit of zypper gives ZypperError with the stderr
\* text; malformed markup or a malformed attribute gives an error.
C9_Original ==
    ZypperDone /\ args.output.spawn =>
        /\ args.output.status # 0 =>
              result = Err(<<"ZypperError", args.output.stderr.text>>)
        /\ (/\ args.output.status = 0
            /\ args.output.stdout.utf8
            /\ ~WellFormed(args.output.stdout.text)) => ~result.ok

\* C9 (amended): a non-zero exit of zypper gives an error and never a list:
\* ZypperError with the stderr text, or Utf8StringError when stderr is no
\* text; markup the reader rejects, or a malformed attribute of an update
\* start tag, gives an XML error instead of the items read so far.
C9_Propagates ==
    ZypperDone /\ args.output.spawn =>
        /\ args.output.status # 0 =>
              result = IF args.output.stderr.utf8
                       THEN Err(<<"ZypperError", args.output.stderr.text>>)
                       ELSE Err(<<"Utf8StringError">>)
        /\ LET doc == args.output.stdout.text
               Rejected(item) ==
                   \/ item.form = "malformed"
                   \/ item.form = "element" /\ item.tag = "update" /\ HasBadAttr(item)
           IN  (args.output.status = 0 /\ args.output.stdout.utf8 /\ Count(doc, Rejected) > 0)
               => (~result.ok /\ result.err[1] \in {"XMLError", "XMLAttributeError"})

\* zypper failed after printing an update element, and the error came back
C9_Witness ==
    /\ ZypperDone
    /\ args.output.status # 0
    /\ args.output.stdout.utf8
    /\ \E i \in DOMAIN args.output.stdout.text :
          args.output.stdout.text[i] = Item("element", "update", FullAttrs)
    /\ result = Err(<<"ZypperError", <<"e">>>>)

(***************************************************************************)
(* The command executors: one call of run_shell_command or of              *)
(* run_interactive_shell_command.                                          *)
(***************************************************************************)
Commands == SeqsUpTo({"a", "b"}, MaxCmdLen)

\* the constructors the callers pass (package_manager.rs:72, :80), or none
NoConstructor == [some |-> FALSE, v |-> ""]

ErrorConstructors == {NoConstructor, Some("DownloadError"), Some("UpdateError")}

ShOutputs ==
    {CommandOutput(FALSE, 0, Bytes(<<>>), Bytes(<<>>))}
    \cup {CommandOutput(TRUE, status, out, err) :
            status \in {0, 1},
            out \in {Bytes(<<"o">>), BadBytes},
            err \in {Bytes(<<>>)} \cup Stderrs}

ShWaits ==
    {[spawn |-> FALSE, wait |-> FALSE, status |-> 0]}
    \cup {[spawn |-> TRUE, wait |-> w, status |-> st] : w \in BOOLEAN, st \in {0, 1}}

Init ==
    /\ data = [update_timestamp |-> 0]
    /\ \/ Call("run_shell_command",
               [command : Commands, elevate_privileges : BOOLEAN,
                get_error : ErrorConstructors, sh : ShOutputs])
       \/ Call("run_interactive_shell_command",
               [command : Commands, elevate_privileges : BOOLEAN, sh : ShWaits])

RunShellCommand ==
    /\ pc = "call"
    /\ op = "run_shell_command"
    /\ LET r == run_shell_command(args.command, args.elevate_privileges,
                                  args.get_error, args.sh)
       IN  Return(r.result, r.spawned)

RunInteractiveShellCommand ==
    /\ pc = "call"
    /\ op = "run_interactive_shell_command"
    /\ LET r == run_interactive_shell_command(args.command, args.elevate_privileges, args.sh)
       IN  Return(r.result, r.spawned)

Next == RunShellCommand \/ RunInteractiveShellCommand

Spec == Init /\ [][Next]_vars

(***************************************************************************)
(* Properties of the command executors.                                    *)
(***************************************************************************)
ExecDone ==
    pc = "done" /\ op \in {"run_shell_command", "run_interactive_shell_command"}

\* C10: either executor, called with the empty command, fails with
\* EmptyCommand and launches nothing, whatever the elevation flag; a command
\* that is not empty is handed to the shell.
C10_EmptyCommand ==
    ExecDone =>
        IF args.command = <<>>
        THEN result = Err(<<"EmptyCommand">>) /\ spawned = <<>>
        ELSE result # Err(<<"EmptyCommand">>) /\ Len(spawned) = 1

\* the capturing executor refused the empty command although elevation was
\* asked for and the shell would have succeeded
C10_Witness ==
    /\ pc = "done"
    /\ op = "run_shell_command"
    /\ args.command = <<>>
    /\ args.elevate_privileges
    /\ args.sh.spawn /\ args.sh.status = 0
    /\ result = Err(<<"EmptyCommand">>)
    /\ spawned = <<>>

\* C11 as stated: whenever the shell exits with a status other than zero the
\* capturing executor returns an error, with or without an error
\* constructor; with a constructor and stderr that decodes, the error is the
\* constructor's kind around the stderr text.
C11_Original ==
    (/\ pc = "done"
     /\ op = "run_shell_command"
     /\ args.command # <<>>
     /\ args.sh.spawn
     /\ args.sh.status # 0)
    => /\ ~result.ok
       /\ (args.get_error.some /\ args.sh.stderr.utf8)
            => result = Err(<<args.get_error.v, args.sh.stderr.text>>)

\* C12 as stated: the interactive executor succeeds only when the process
\* it waited for exited with status zero.
C12_Original ==
    (/\ pc = "done"
     /\ op = "run_interactive_shell_command"
     /\ result.ok)
    => (args.sh.spawn /\ args.sh.wait /\ args.sh.status = 0)

(***************************************************************************)
(* Every subprocess the package module launches: the two executors and the *)
(* two check_update commands.                                              *)
(***************************************************************************)
InitCommands == Init \/ InitUpdates

NextCommands == Next \/ NextUpdates

SpecCommands == InitCommands /\ [][NextCommands]_vars

\* C13: both executors hand sh -c the text "pkexec " followed by the command
\* when elevation is asked for and the command itself when it is not; the
\* check_update commands of zypper and dnf are launched directly, without
\* the wrapper.
C13_PkexecIffElevated ==
    /\ (ExecDone /\ args.command # <<>>) =>
          spawned = <<[program |-> "sh",
                       argv |-> <<"-c", IF args.elevate_privileges
                                        THEN <<"p", "k", "e", "x", "e", "c", " ">> \o args.command
                                        ELSE args.command>>]>>
    /\ ZypperDone => spawned = <<[program |-> "zypper", argv |-> <<"--xmlout", "lu">>]>>
    /\ DnfDone => spawned = <<[program |-> "dnf", argv |-> <<"check-update">>]>>

\* the interactive executor was asked for elevation and launched
\* sh -c "pkexec a"
C13_Witness ==
    /\ pc = "done"
    /\ op = "run_interactive_shell_command"
    /\ args.command = <<"a">>
    /\ args.elevate_privileges
    /\ spawned[1].argv[2] = <<"p", "k", "e", "x", "e", "c", " ", "a">>

(***************************************************************************)
(* The provided methods of PackageManager and the backend factory: one     *)
(* call of get_package_manager, download_update, do_update or              *)
(* get_cached_changelogs.                                                  *)
(***************************************************************************)
\* what sh answers to either executor
ProcessAnswers ==
    {[spawn |-> FALSE, wait |-> FALSE, status |-> 0,
      stdout |-> Bytes(<<>>), stderr |-> Bytes(<<>>)]}
    \cup {[spawn |-> TRUE, wait |-> w, status |-> st, stdout |-> out, stderr |-> err] :
            w \in BOOLEAN, st \in {0, 1},
            out \in {Bytes(<<"o">>), BadBytes}, err \in Stderrs}

\* the configurations that differ in the selected backend
SelectorConfigs ==
    {PackageConfig(t, <<"d">>, <<"u">>, <<"n">>, NoPath) :
        t \in {NoType} \cup {Some(x) : x \in PackageManagerType}}

\* the configurations that differ in the three commands, each set or empty
CommandConfigs ==
    {PackageConfig(Some("Zypper"), d, u, n, NoPath) :
        d \in {<<>>, <<"d">>}, u \in {<<>>, <<"u">>}, n \in {<<>>, <<"n">>}}

\* the trees of fewer than MaxNodes entries
CachedRoots ==
    {OtherNode("unlistable")}
    \cup {DirNode(entries) : entries \in UNION {ForestsOf(n) : n \in 0..(MaxNodes - 1)}}

\* the configurations that differ in cached_package_path
PathConfigs ==
    {PackageConfig(Some("Zypper"), <<"d">>, <<"u">>, <<"n">>, path) :
        path \in {NoPath} \cup {Some(root) : root \in CachedRoots}}

InitManager ==
    /\ data = [update_timestamp |-> 0]
    /\ \/ Call("get_package_manager", [config : SelectorConfigs])
       \/ Call("download_update", [config : CommandConfigs, sh : ProcessAnswers])
       \/ Call("do_update",
               [config : CommandConfigs, interactive : BOOLEAN, sh : ProcessAnswers])
       \/ Call("get_cached_changelogs",
               [config : PathConfigs, query : WalkQueries,
                rpmdb : [WalkNames -> WalkRpmAnswers]])

GetPackageManager ==
    /\ pc = "call"
    /\ op = "get_package_manager"
    /\ Return(get_package_manager(args.config), <<>>)

DownloadUpdate ==
    /\ pc = "call"
    /\ op = "download_update"
    /\ LET r == download_update(args.config, args.sh)
       IN  Return(r.result, r.spawned)

DoUpdate ==
    /\ pc = "call"
    /\ op = "do_update"
    /\ LET r == do_update(args.config, args.interactive, args.sh)
       IN  Return(r.result, r.spawned)

GetCachedChangelogs ==
    /\ pc = "call"
    /\ op = "get_cached_changelogs"
    /\ LET r == get_cached_changelogs(args.config, args.query, args.rpmdb)
       IN  Return(r.result, r.spawned)

NextManager == GetPackageManager \/ DownloadUpdate \/ DoUpdate \/ GetCachedChangelogs

SpecManager == InitManager /\ [][NextManager]_vars

(***************************************************************************)
(* Properties of the provided methods and of the factory.                  *)
(***************************************************************************)
Elevated(command) ==
    [program |-> "sh", argv |-> <<"-c", <<"p", "k", "e", "x", "e", "c", " ">> \o command>>]

\* C14: do_update runs update_command through the interactive executor when
\* interactive and noconfirm_update_command through the capturing executor
\* otherwise, elevated in both modes; the selected command, when empty,
\* fails with EmptyCommand before anything is launched, the other command
\* plays no part; a failed noconfirm update is an UpdateError.
C14_DispatchOnFlag ==
    (pc = "done" /\ op = "do_update") =>
        LET selected == IF args.interactive THEN args.config.update_command
                        ELSE args.config.noconfirm_update_command
        IN  IF selected = <<>>
            THEN result = Err(<<"EmptyCommand">>) /\ spawned = <<>>
            ELSE /\ spawned = <<Elevated(selected)>>
                 /\ result = IF args.interactive
                             THEN run_interactive_shell_command(selected, TRUE, args.sh).result
                             ELSE run_shell_command(selected, TRUE, Some("UpdateError"),
                                                    args.sh).result
                 /\ (/\ ~args.interactive
                     /\ args.sh.spawn
                     /\ args.sh.status # 0
                     /\ args.sh.stderr.utf8)
                    => result = Err(<<"UpdateError", args.sh.stderr.text>>)

\* an interactive update ran although no noconfirm command is configured
C14_Witness ==
    /\ pc = "done"
    /\ op = "do_update"
    /\ args.interactive
    /\ args.config.noconfirm_update_command = <<>>
    /\ args.config.update_command = <<"u">>
    /\ spawned = <<Elevated(<<"u">>)>>
    /\ result.ok

\* C15: download_update runs download_command through the capturing
\* executor with elevation; an empty command fails with EmptyCommand and
\* launches nothing; a nonzero exit is a DownloadError with the stderr text
\* (a decoding error when stderr is no text).
C15_DownloadElevated ==
    (pc = "done" /\ op = "download_update") =>
        IF args.config.download_command = <<>>
        THEN result = Err(<<"EmptyCommand">>) /\ spawned = <<>>
        ELSE /\ spawned = <<Elevated(args.config.download_command)>>
             /\ (args.sh.spawn /\ args.sh.status # 0 /\ args.sh.stderr.utf8)
                => result = Err(<<"DownloadError", args.sh.stderr.text>>)
             /\ (args.sh.spawn /\ args.sh.status # 0 /\ ~args.sh.stderr.utf8)
                => result = Err(<<"Utf8StringError">>)
             /\ (args.sh.spawn /\ args.sh.status = 0 /\ args.sh.stdout.utf8)
                => result.ok

\* the download command exited with status 1 and the error came back
C15_Witness ==
    /\ pc = "done"
    /\ op = "download_update"
    /\ args.config.download_command = <<"d">>
    /\ args.sh.status = 1
    /\ spawned = <<Elevated(<<"d">>)>>
    /\ result = Err(<<"DownloadError", <<"e">>>>)

CachedDone == pc = "done" /\ op = "get_cached_changelogs"

\* C16: without cached_package_path get_cached_changelogs fails with
\* UnkownCachedPackagePath and nothing is read or launched; with a path its
\* result is the result of the walker on that path with the same query.
C16_CachedDelegates ==
    CachedDone =>
        IF args.config.cached_package_path.some
        THEN /\ result = get_dir_changelogs(args.query, args.config.cached_package_path.v,
                                            args.rpmdb)
             /\ spawned = rpm_queries_of_dir(args.query, args.config.cached_package_path.v, 1)
        ELSE result = Err(<<"UnkownCachedPackagePath">>) /\ spawned = <<>>

\* no path is configured and the query names a package
C16_Witness ==
    /\ CachedDone
    /\ ~args.config.cached_package_path.some
    /\ args.query.some
    /\ result = Err(<<"UnkownCachedPackagePath">>)

\* C17: the factory builds the zypper backend for Zypper, the dnf backend
\* for Dnf, and fails with UnsupportedPackageManager for Apt, Pacman and no
\* selector.
C17_FactorySelects ==
    (pc = "done" /\ op = "get_package_manager") =>
        LET selector == args.config.package_manager
        IN  /\ (selector.some /\ selector.v = "Zypper") => result = Ok(<<"ZypperManager">>)
            /\ (selector.some /\ selector.v = "Dnf") => result = Ok(<<"DnfManger">>)
            /\ (~selector.some \/ selector.v \in {"Apt", "Pacman"})
               => result = Err(<<"UnsupportedPackageManager">>)

\* Pacman was selected and refused
C17_Witness ==
    /\ pc = "done"
    /\ op = "get_package_manager"
    /\ args.config.package_manager = Some("Pacman")
    /\ result = Err(<<"UnsupportedPackageManager">>)

(***************************************************************************)
(* The text of the walk (checked under SpecWalk).                          *)
(***************************************************************************)
RECURSIVE SurvivingTexts(_, _)
\* the texts of the contributing archives below `path`, from its i-th entry
\* on, depth first in the order of the listings
SurvivingTexts(path, i) ==
    IF path.kind # "dir" \/ i > Len(path.children) THEN <<>>
    ELSE LET node == path.children[i]
         IN  (IF node.kind = "file"
              THEN (IF Contributes(node.file) THEN <<PackageText(node.file)>> ELSE <<>>)
              ELSE SurvivingTexts(node, 1))
             \o SurvivingTexts(path, i + 1)

RECURSIVE BlankLineJoined(_)
\* the texts with "\n\n" between consecutive ones and nowhere else
BlankLineJoined(texts) ==
    IF Len(texts) = 0 THEN <<>>
    ELSE IF Len(texts) = 1 THEN texts[1]
    ELSE texts[1] \o <<"\n", "\n">> \o BlankLineJoined(Tail(texts))

\* C18: a successful walk returns the surviving per-entry texts with a blank
\* line between consecutive ones only, nothing before the first or after the
\* last, at every depth: the texts of the contributing archives in listing
\* order, joined by "\n\n".
C18_BlankLineBetween ==
    WalkDone /\ result.ok =>
        /\ result.val = BlankLineJoined(SurvivingTexts(args.path, 1))
        /\ result.val[1] = "="
        /\ result.val[Len(result.val)] # "\n"

\* an archive of the root and an archive of a subdirectory both contributed
C18_Witness ==
    /\ WalkDone
    /\ result.ok
    /\ Len(SurvivingTexts(args.path, 1)) = 2
    /\ \E i, j \in DOMAIN args.path.children :
          /\ args.path.children[i].kind = "file"
          /\ Contributes(args.path.children[i].file)
          /\ args.path.children[j].kind = "dir"
          /\ Len(SurvivingTexts(args.path.children[j], 1)) = 1

(***************************************************************************)
(* The text of one package: one call of get_package_changelogs_string.     *)
(***************************************************************************)
InitPackage ==
    /\ data = [update_timestamp |-> 0]
    /\ Call("get_package_changelogs_string",
            [query : ReaderQueries, file : ReaderFiles, rpm : RpmAnswers])

GetPackageChangelogsString ==
    /\ pc = "call"
    /\ op = "get_package_changelogs_string"
    /\ Return(get_package_changelogs_string(args.query, args.file,
                                            [n \in {args.file.name} |-> args.rpm]),
              rpm_queries_of_file(args.query, args.file))

NextPackage == GetPackageChangelogsString

SpecPackage == InitPackage /\ [][NextPackage]_vars

PackageDone == pc = "done" /\ op = "get_package_changelogs_string"

\* the entries of the archive that are newer than what rpm reports (0 when
\* it reports nothing), in the archive's order
Survivors ==
    LET t == IF \E n \in 0..9 : RpmReports(args.rpm, n)
             THEN CHOOSE n \in 0..9 : RpmReports(args.rpm, n)
             ELSE 0
    IN  NewerThan(args.file.log, t)

RECURSIVE OnOwnLines(_)
OnOwnLines(texts) ==
    IF Len(texts) = 0 THEN <<>> ELSE <<"\n">> \o texts[1] \o OnOwnLines(Tail(texts))

\* C19: for an archive that opens and matches the query, the text is
\* "==== <name> ====" followed by every surviving description on a line of
\* its own, in the archive's order; when no entry survives there is no text
\* but the error NoChangelogsForPackage.
C19_BannerAndEntries ==
    (/\ PackageDone
     /\ args.file.status = "ok"
     /\ (args.query.some => IsPrefix(args.query.v, args.file.name)))
    => IF Survivors = <<>>
       THEN result = Err(<<"NoChangelogsForPackage">>)
       ELSE result = Ok(<<"=", "=", "=", "=", " ">> \o args.file.name
                        \o <<" ", "=", "=", "=", "=">> \o OnOwnLines(Survivors))

\* two entries survived and came back in the archive's order, y before x
C19_Witness ==
    /\ PackageDone
    /\ args.file.name = oo
    /\ Survivors = <<<<"y">>, <<"x">>>>
    /\ result = Ok(<<"=", "=", "=", "=", " ", "o", "o", " ", "=", "=", "=", "=",
                     "\n", "y", "\n", "x">>)

(***************************************************************************)
(* The command line (main.rs): one run of the init, check-update, update   *)
(* or changelog subcommand.  The storage collaborator is given by what its *)
(* calls return: `config_init` and `data_init` for Config::init and        *)
(* Data::init, `fetch` for Config::fetch.  A run ends with an exit status, *)
(* the lines printed on stdout and the error printed on stderr.            *)
(***************************************************************************)
StorageOk(value) == [ok |-> TRUE, val |-> value, err |-> <<>>]
StorageErr(e) == [ok |-> FALSE, val |-> Bytes(<<>>), err |-> e]

\* main.rs:19-23 and :25-29: the From impls `?` goes through
StorageError(e) == <<"StorageError">> \o e
PackageManagerError(e) == <<"PackageManagerError">> \o e

NoInitPath == [some |-> FALSE, v |-> Bytes(<<>>)]

\* main.rs:190-198
handle_storage_result(config_result) ==
    IF config_result.ok THEN Ok(Some(config_result.val))
    ELSE IF config_result.err = <<"FileAlreadyExists">> THEN Ok(NoInitPath)
    ELSE Err(StorageError(config_result.err))

Println(format, text) == [format |-> format, text |-> text]

Step(value, printed, launched) == [result |-> value, printed |-> printed, spawned |-> launched]

\* package_manager.rs:24-38: name, " (new)" and " -> (old)" for the versions known
fmt(item) ==
    item.name
    \o (IF item.new_version.some
        THEN <<" ", "(">> \o item.new_version.v \o <<")">>
             \o (IF item.old_version.some
                 THEN <<" ", "-", ">", " ", "(">> \o item.old_version.v \o <<")">>
                 ELSE <<>>)
        ELSE <<>>)

Config(download_in_background, package) ==
    [service |-> [download_in_background |-> download_in_background], package |-> package]

FetchOk(config) == [ok |-> TRUE, val |-> config, err |-> <<>>]
FetchErr(e) ==
    [ok |-> FALSE,
     val |-> Config(FALSE, PackageConfig(NoType, <<>>, <<>>, <<>>, NoPath)),
     err |-> e]

\* main.rs:107-116
cli_init(env) ==
    LET output_path_opt == handle_storage_result(env.config_init)
    IN  IF ~output_path_opt.ok THEN Step(output_path_opt, <<>>, <<>>)
        ELSE LET data_path_opt == handle_storage_result(env.data_init)
             IN  IF ~data_path_opt.ok THEN Step(data_path_opt, <<>>, <<>>)
                 ELSE Step(Ok(<<>>),
                           IF output_path_opt.val.some /\ output_path_opt.val.v.utf8
                           THEN <<Println("Wrote configuration to {}",
                                          output_path_opt.val.v.text)>>
                           ELSE <<>>,
                           <<>>)

\* pkg_manager.check_update() of the backend the factory built
backend_check_update(backend, output) ==
    IF backend = "ZypperManager"
    THEN Outcome(zypper_check_update(output), <<ZypperCommand>>)
    ELSE Outcome(dnf_check_update(output), <<DnfCommand>>)

\* a check-update that downloads whenever there are updates, flag or not
check_update_always_downloads(download, env) ==
    IF ~env.fetch.ok THEN Step(Err(StorageError(env.fetch.err)), <<>>, <<>>)
    ELSE LET config == env.fetch.val
             pkg_manager == get_package_manager(config.package)
         IN  IF ~pkg_manager.ok
             THEN Step(Err(PackageManagerError(pkg_manager.err)), <<>>, <<>>)
             ELSE LET checked == backend_check_update(pkg_manager.val[1], env.output)
                      updates == checked.result
                      dl == download_update(config.package, env.sh)
                  IN  IF ~updates.ok
                      THEN Step(Err(PackageManagerError(updates.err)), <<>>, checked.spawned)
                      ELSE IF Len(updates.val) = 0
                      THEN Step(Ok(<<>>), <<Println("No updates available.", <<>>)>>,
                                checked.spawned)
                      ELSE IF ~dl.result.ok
                      THEN Step(Err(PackageManagerError(dl.result.err)),
                                <<Println("Available updates:", <<>>)>>
                                \o [i \in DOMAIN updates.val |->
                                       Println("{}", fmt(updates.val[i]))],
                                checked.spawned \o dl.spawned)
                      ELSE Step(Ok(<<>>),
                                <<Println("Available updates:", <<>>)>>
                                \o [i \in DOMAIN updates.val |->
                                       Println("{}", fmt(updates.val[i]))]
                                \o <<Println("Updates downloaded.", <<>>)>>,
                                checked.spawned \o dl.spawned)

\* main.rs:118-139
cli_check_update(download, env) ==
    IF ~env.fetch.ok THEN Step(Err(StorageError(env.fetch.err)), <<>>, <<>>)
    ELSE LET config == env.fetch.val
             pkg_manager == get_package_manager(config.package)
         IN  IF ~pkg_manager.ok
             THEN Step(Err(PackageManagerError(pkg_manager.err)), <<>>, <<>>)
             ELSE LET checked == backend_check_update(pkg_manager.val[1], env.output)
                      updates == checked.result
                  IN  IF ~updates.ok
                      THEN Step(Err(PackageManagerError(updates.err)), <<>>, checked.spawned)
                      ELSE IF Len(updates.val) = 0
                      THEN Step(Ok(<<>>), <<Println("No updates available.", <<>>)>>,
                                checked.spawned)
                      ELSE LET listed ==
                                   <<Println("Available updates:", <<>>)>>
                                   \o [i \in DOMAIN updates.val |->
                                          Println("{}", fmt(updates.val[i]))]
                           IN  IF download \/ config.service.download_in_background
                               THEN LET dl == download_update(config.package, env.sh)
                                    IN  IF ~dl.result.ok
                                        THEN Step(Err(PackageManagerError(dl.result.err)),
                                                  listed, checked.spawned \o dl.spawned)
                                        ELSE Step(Ok(<<>>),
                                                  listed \o <<Println("Updates downloaded.", <<>>)>>,
                                                  checked.spawned \o dl.spawned)
                               ELSE Step(Ok(<<>>), listed, checked.spawned)

\* main.rs:141-148
cli_update(gui, no_confirm, env) ==
    IF ~env.fetch.ok THEN Step(Err(StorageError(env.fetch.err)), <<>>, <<>>)
    ELSE LET config == env.fetch.val
             pkg_manager == get_package_manager(config.package)
         IN  IF ~pkg_manager.ok
             THEN Step(Err(PackageManagerError(pkg_manager.err)), <<>>, <<>>)
             ELSE LET r == do_update(config.package, ~no_confirm, env.sh)
                  IN  IF ~r.result.ok
                      THEN Step(Err(PackageManagerError(r.result.err)), <<>>, r.spawned)
                      ELSE Step(Ok(<<>>), <<>>, r.spawned)

\* main.rs:150-157
cli_changelog(query, env) ==
    IF ~env.fetch.ok THEN Step(Err(StorageError(env.fetch.err)), <<>>, <<>>)
    ELSE LET config == env.fetch.val
             pkg_manager == get_package_manager(config.package)
         IN  IF ~pkg_manager.ok
             THEN Step(Err(PackageManagerError(pkg_manager.err)), <<>>, <<>>)
             ELSE LET r == get_cached_changelogs(config.package, query, env.rpmdb)
                  IN  IF ~r.result.ok
                      THEN Step(Err(PackageManagerError(r.result.err)), <<>>, r.spawned)
                      ELSE Step(Ok(<<>>), <<Println("{}", r.result.val)>>, r.spawned)

\* std::process::exit(status), after the lines printed on stdout and the
\* "Error: {}" line on stderr
Exit(status, stdout, stderr) ==
    [ok |-> status = 0, val |-> [status |-> status, stdout |-> stdout], err |-> stderr]

\* main.rs:86-105
main(command, env) ==
    LET r == CASE command.name = "init" -> cli_init(env)
               [] command.name = "check-update" -> cli_check_update(command.download, env)
               [] command.name = "update" -> cli_update(command.gui, command.no_confirm, env)
               [] command.name = "changelog" -> cli_changelog(command.query, env)
    IN  Outcome(IF r.result.ok THEN Exit(0, r.printed, <<>>)
                ELSE Exit(1, r.printed, r.result.err),
                r.spawned)

StorageErrors ==
    {<<"DirUndefined">>, <<"TomlDeserializationError">>, <<"IO">>}

\* what Config::init and Data::init return: the path written (text or not),
\* FileAlreadyExists, or another storage error
InitResults ==
    {StorageOk(Bytes(<<"c">>)), StorageOk(BadBytes), StorageErr(<<"FileAlreadyExists">>),
     StorageErr(<<"TomlSerializationError">>)}
    \cup {StorageErr(e) : e \in StorageErrors}

FetchErrors == {FetchErr(e) : e \in StorageErrors}

\* what the check command of the selected backend can answer
CliOutputs(package_manager) ==
    IF package_manager = Some("Zypper")
    THEN {CommandOutput(FALSE, 0, Bytes(<<>>), Bytes(<<>>)),
          CommandOutput(TRUE, 1, Bytes(<<>>), Bytes(<<"e">>)),
          CommandOutput(TRUE, 0, BadBytes, Bytes(<<>>)),
          CommandOutput(TRUE, 0, Bytes(<<>>), Bytes(<<>>)),
          CommandOutput(TRUE, 0, Bytes(<<Item("malformed", "", <<>>)>>), Bytes(<<>>)),
          CommandOutput(TRUE, 0, Bytes(<<Item("element", "update", FullAttrs)>>), Bytes(<<>>)),
          CommandOutput(TRUE, 0, Bytes(<<Item("selfclosing", "update", FullAttrs)>>),
                        Bytes(<<>>))}
    ELSE IF package_manager = Some("Dnf")
    THEN {CommandOutput(FALSE, 0, Bytes(<<>>), Bytes(<<>>)),
          CommandOutput(TRUE, 1, Bytes(<<>>), Bytes(<<"e">>)),
          CommandOutput(TRUE, 0, Bytes(<<>>), Bytes(<<>>)),
          CommandOutput(TRUE, 100,
                        Bytes(<<Line(FALSE, <<"bash.x86_64", "5.2-1", "updates">>, FALSE)>>),
                        Bytes(<<>>))}
    ELSE {CommandOutput(FALSE, 0, Bytes(<<>>), Bytes(<<>>))}

CliSelectors == {NoType, Some("Zypper"), Some("Dnf"), Some("Apt")}

\* sh prints text on stdout, whatever else it does
CliShAnswers == {sh \in ProcessAnswers : sh.stdout.utf8}

CliRoots ==
    {OtherNode("unlistable")}
    \cup {DirNode(entries) : entries \in ForestsOf(0) \cup ForestsOf(1)}

InitRuns ==
    [command : [name : {"init"}, config : {NoInitPath, Some(Bytes(<<"c">>))}],
     env : [config_init : InitResults, data_init : InitResults]]

CheckUpdateRuns ==
    [command : [name : {"check-update"}, download : BOOLEAN],
     env : UNION {[fetch : {FetchOk(Config(bg, PackageConfig(t, d, <<"u">>, <<"n">>, NoPath)))},
                   output : CliOutputs(t),
                   sh : CliShAnswers] :
                    bg \in BOOLEAN, t \in CliSelectors, d \in {<<>>, <<"d">>}}
           \cup [fetch : FetchErrors,
                 output : CliOutputs(NoType),
                 sh : {CHOOSE sh \in CliShAnswers : ~sh.spawn}]]

UpdateRuns ==
    [command : [name : {"update"}, gui : BOOLEAN, no_confirm : BOOLEAN],
     env : [fetch : FetchErrors
                    \cup {FetchOk(Config(FALSE, PackageConfig(t, <<"d">>, u, n, NoPath))) :
                            t \in {Some("Zypper"), Some("Pacman")},
                            u \in {<<>>, <<"u">>}, n \in {<<>>, <<"n">>}},
            sh : CliShAnswers]]

ChangelogRuns ==
    [command : [name : {"changelog"}, query : WalkQueries],
     env : [fetch : FetchErrors
                    \cup {FetchOk(Config(FALSE, PackageConfig(t, <<"d">>, <<"u">>, <<"n">>, path))) :
                            t \in {NoType, Some("Dnf")},
                            path \in {NoPath} \cup {Some(root) : root \in CliRoots}},
            rpmdb : [WalkNames -> WalkRpmAnswers]]]

InitCli ==
    /\ data = [update_timestamp |-> 0]
    /\ Call("main", InitRuns \cup CheckUpdateRuns \cup UpdateRuns \cup ChangelogRuns)

Main ==
    /\ pc = "call"
    /\ op = "main"
    /\ LET r == main(args.command, args.env)
       IN  Return(r.result, r.spawned)

NextCli == Main

SpecCli == InitCli /\ [][NextCli]_vars

(***************************************************************************)
(* Properties of the command line.                                         *)
(***************************************************************************)
MainDone == pc = "done" /\ op = "main"

\* the storage call wrote the file, or found it there already
Initialised(init_result) == init_result.ok \/ init_result.err = <<"FileAlreadyExists">>

\* the configuration was read and selects an implemented backend
Configured ==
    /\ args.env.fetch.ok
    /\ args.env.fetch.val.package.package_manager \in {Some("Zypper"), Some("Dnf")}

\* sh was launched and the command it ran exited with status 0
CommandSucceeded == args.env.sh.spawn /\ args.env.sh.status = 0

\* every step the subcommand took succeeded
EveryStepSucceeded ==
    CASE args.command.name = "init" ->
            Initialised(args.env.config_init) /\ Initialised(args.env.data_init)
      [] args.command.name = "check-update" ->
            /\ Configured
            /\ args.env.output.spawn
            /\ (args.env.fetch.val.package.package_manager = Some("Zypper")
                => args.env.output.status = 0)
            /\ (\E i \in DOMAIN spawned : spawned[i].program = "sh") => CommandSucceeded
      [] args.command.name = "update" ->
            Configured /\ CommandSucceeded
      [] args.command.name = "changelog" ->
            /\ Configured
            /\ args.env.fetch.val.package.cached_package_path.some
            /\ get_dir_changelogs(args.command.query,
                                  args.env.fetch.val.package.cached_package_path.v,
                                  args.env.rpmdb).ok

\* C20 as stated: a subcommand exits with status 0 only if every step it
\* took succeeded, and a run that failed exits with a status other than 0
\* after printing the error.
C20_Original ==
    MainDone =>
        /\ result.val.status = 0 => EveryStepSucceeded
        /\ result.val.status # 0 => Len(result.err) > 0

(***************************************************************************)
(* Storage (storage/toml.rs): a TOML file per stored kind, "Config" or     *)
(* "Data".  A path is its components with the flag of being text; the file *)
(* system is a function from paths to files.  A file's contents are a      *)
(* document: the kind it parses as (or "neither"), the value it holds and  *)
(* its layout, "written" by the serialiser or typed by "hand".  The        *)
(* variables of the process and the file-system call that fails on this    *)
(* run, if any, are the environment `env`.                                 *)
(***************************************************************************)
\* toml.rs:7
USER_HOME == "HOME"
\* toml.rs:8
PROGRAM_NAME == "package-assistant"

\* storage/config.rs:20-22 and storage/data.rs:23-25
file_name(kind) == IF kind = "Config" THEN "settings.toml" ELSE "data.toml"

\* config.rs:7 (CONFIG_HOME) and storage/data.rs:19-21
directory_env_var(kind) == IF kind = "Config" THEN "XDG_CONFIG_HOME" ELSE "XDG_DATA_HOME"

\* storage/config.rs:16-18 and storage/data.rs:15-17
default_directory(kind) == IF kind = "Config" THEN "/etc" ELSE ".local/share"

\* storage/config.rs:76-94
DefaultConfig == Config(TRUE, PackageConfig(NoType, <<>>, <<>>, <<>>, NoPath))

\* storage/data.rs:28-34
DefaultData == [update_timestamp |-> 0]

\* toml.rs:13-15
new(kind) == IF kind = "Config" THEN DefaultConfig ELSE DefaultData

Document(kind, value, layout) ==
    [kind |-> kind, layout |-> layout,
     config |-> IF kind = "Config" THEN value ELSE DefaultConfig,
     data |-> IF kind = "Data" THEN value ELSE DefaultData]

\* text that is no TOML, or TOML of neither kind
Garbage == [Document("Config", DefaultConfig, "hand") EXCEPT !.kind = "neither"]

StoredFile(contents) == [exists |-> TRUE, contents |-> contents]
Missing == [exists |-> FALSE, contents |-> Garbage]

\* toml.rs:17-20
from_toml_str(kind, contents) ==
    IF contents.kind # kind THEN Err(<<"TomlDeserializationError">>)
    ELSE Ok(IF kind = "Config" THEN contents.config ELSE contents.data)

\* toml.rs:22-25
to_toml_str(kind, value) == Ok(Document(kind, value, "written"))

\* std::env::var_os of a variable that is not set
Unset == [some |-> FALSE, v |-> ""]

\* PathBuf::from
PathBuf(os_string) == Bytes(<<os_string>>)

\* PathBuf::push: a component with a root replaces the path
push(path, component) ==
    IF component = "/etc" THEN Bytes(<<component>>)
    ELSE [path EXCEPT !.text = Append(path.text, component)]

\* toml.rs:48-66
get_dir_path(kind, env) ==
    LET home_dir == env[USER_HOME]
        data_home == env[directory_env_var(kind)]
    IN  IF data_home.some /\ data_home.v # ""
        THEN StorageOk(PathBuf(data_home.v))
        ELSE IF home_dir.some
        THEN StorageOk(push(push(PathBuf(home_dir.v), default_directory(kind)),
                            PROGRAM_NAME))
        ELSE StorageErr(<<"DirUndefined">>)

\* toml.rs:69-73
get_file_path(kind, env) ==
    LET path == get_dir_path(kind, env)
    IN  IF ~path.ok THEN path ELSE StorageOk(push(path.val, file_name(kind)))

Stored(value, files) == [result |-> value, files |-> files]

\* the file-system call `call` made for `kind` fails on this run
Fault(kind, call) == [kind |-> kind, call |-> call]
NoFault == Fault("none", "none")

\* toml.rs:28-34
fetch(kind, env, files) ==
    LET path == get_file_path(kind, env)
    IN  IF ~path.ok THEN FetchErr(path.err)
        ELSE IF env.fault = Fault(kind, "read_to_string") \/ ~files[path.val].exists
        THEN FetchErr(<<"IO">>)
        ELSE LET parsed == from_toml_str(kind, files[path.val].contents)
             IN  IF ~parsed.ok THEN FetchErr(parsed.err) ELSE FetchOk(parsed.val)

\* toml.rs:37-43
save(kind, value, env, files) ==
    LET path == get_file_path(kind, env)
        contents == to_toml_str(kind, value)
    IN  IF ~path.ok THEN Stored(path, files)
        ELSE IF ~contents.ok THEN Stored(StorageErr(contents.err), files)
        ELSE IF env.fault = Fault(kind, "write") THEN Stored(StorageErr(<<"IO">>), files)
        ELSE Stored(StorageOk(path.val),
                    [files EXCEPT ![path.val] = StoredFile(contents.val)])

\* toml.rs:87-91: the copy from the provided file
copy_custom(kind, path, env, files) ==
    IF env.fault = Fault(kind, "read_to_string") \/ ~files[path].exists
    THEN Stored(StorageErr(<<"IO">>), files)
    ELSE LET parsed == from_toml_str(kind, files[path].contents)
         IN  IF ~parsed.ok THEN Stored(StorageErr(parsed.err), files)
             ELSE save(kind, parsed.val, env, files)

\* an init without the test of line 93: it writes the default contents
\* whether the file exists or not
init_overwrites(kind, custom_path, env, files) ==
    LET data_dir == get_dir_path(kind, env)
    IN  IF ~data_dir.ok THEN Stored(data_dir, files)
        ELSE IF env.fault = Fault(kind, "create_dir_all")
        THEN Stored(StorageErr(<<"IO">>), files)
        ELSE LET file_path == get_file_path(kind, env).val
                 copied == IF custom_path.some
                           THEN copy_custom(kind, custom_path.v, env, files)
                           ELSE Stored(StorageOk(file_path), files)
             IN  IF ~copied.result.ok THEN copied
                 ELSE LET saved == save(kind, new(kind), env, copied.files)
                      IN  IF ~saved.result.ok THEN saved
                          ELSE Stored(StorageOk(file_path), saved.files)

\* toml.rs:100: Ok(file_path), unless the save before it failed
saved_path(file_path, saved) ==
    IF ~saved.result.ok THEN saved ELSE Stored(StorageOk(file_path), saved.files)

\* toml.rs:93-100, on what the copy of lines 87-91 left: the test of line 93
\* is a second `if`, not the `else` of the copy, so it runs after the copy
\* too
init_default(kind, env, file_path, copied) ==
    IF ~copied.result.ok THEN copied
    ELSE IF env.fault = Fault(kind, "exists") THEN Stored(StorageErr(<<"IO">>), copied.files)
    ELSE IF copied.files[file_path].exists
    THEN Stored(StorageErr(<<"FileAlreadyExists">>), copied.files)
    ELSE saved_path(file_path, save(kind, new(kind), env, copied.files))

\* toml.rs:78-101
init(kind, custom_path, env, files) ==
    IF ~get_dir_path(kind, env).ok THEN Stored(get_dir_path(kind, env), files)
    ELSE IF env.fault = Fault(kind, "create_dir_all") THEN Stored(StorageErr(<<"IO">>), files)
    ELSE init_default(kind, env, get_file_path(kind, env).val,
                      IF custom_path.some
                      THEN copy_custom(kind, custom_path.v, env, files)
                      ELSE Stored(StorageOk(get_file_path(kind, env).val), files))

(***************************************************************************)
(* One call of TomlStorage::init.  `data` is the file system; the files    *)
(* the call found are kept in `args.files`.                                *)
(***************************************************************************)
Kinds == {"Config", "Data"}

EnvVars ==
    [HOME : {Unset, Some("h")},
     XDG_CONFIG_HOME : {Unset, Some(""), Some("x")},
     XDG_DATA_HOME : {Unset, Some("y")}]

Calls == {"create_dir_all", "read_to_string", "write", "exists"}

Faults == {NoFault} \cup {Fault(kind, call) : kind \in Kinds, call \in Calls}

WithFault(env_vars, fault) ==
    [HOME |-> env_vars.HOME, XDG_CONFIG_HOME |-> env_vars.XDG_CONFIG_HOME,
     XDG_DATA_HOME |-> env_vars.XDG_DATA_HOME, fault |-> fault]

StoredPaths(kind) ==
    {get_file_path(kind, WithFault(e, NoFault)).val :
        e \in {e \in EnvVars : get_file_path(kind, WithFault(e, NoFault)).ok}}

CustomPath == Bytes(<<"c">>)

StoragePaths == StoredPaths("Config") \cup StoredPaths("Data") \cup {CustomPath}

\* a configuration that selects zypper and names a cache of one archive
ZypperConfig ==
    Config(FALSE,
           PackageConfig(Some("Zypper"), <<"d">>, <<"u">>, <<"n">>,
                         Some(DirNode(<<FileNode(ArchiveFile("ok", foo,
                              <<[timestamp |-> 1, description |-> <<"c">>]>>))>>))))

StoredConfigFiles ==
    {Missing, StoredFile(Document("Config", DefaultConfig, "written")),
     StoredFile(Document("Config", ZypperConfig, "hand"))}

StoredDataFiles == {Missing, StoredFile(Document("Data", [update_timestamp |-> 1], "written"))}

CustomFiles ==
    {Missing, StoredFile(Garbage), StoredFile(Document("Config", ZypperConfig, "hand")),
     StoredFile(Document("Data", [update_timestamp |-> 1], "hand"))}

FileSystems ==
    {[p \in StoragePaths |->
        IF p \in StoredPaths("Config") THEN c
        ELSE IF p \in StoredPaths("Data") THEN d ELSE u] :
        c \in StoredConfigFiles, d \in StoredDataFiles, u \in CustomFiles}

InitCalls ==
    {[kind |-> kind, custom_path |-> custom_path, env |-> WithFault(e, fault),
      files |-> files] :
        kind \in Kinds, custom_path \in {NoInitPath, Some(CustomPath)},
        e \in EnvVars, fault \in Faults, files \in FileSystems}

InitStorage ==
    /\ Call("init", InitCalls)
    /\ data = args.files

TomlStorageInit ==
    /\ pc = "call"
    /\ op = "init"
    /\ LET r == init(args.kind, args.custom_path, args.env, data)
       IN  /\ pc' = "done"
           /\ result' = r.result
           /\ data' = r.files
           /\ UNCHANGED <<op, args, spawned>>

NextStorage == TomlStorageInit

SpecStorage == InitStorage /\ [][NextStorage]_vars

InitDone == pc = "done" /\ op = "init"

\* no file-system call failed and the directory of the stored file resolves
Undisturbed == args.env.fault = NoFault /\ get_dir_path(args.kind, args.env).ok

StoredPath == get_file_path(args.kind, args.env).val

\* the provided file is there and parses as the stored kind
CustomParses ==
    /\ args.custom_path.some
    /\ args.files[args.custom_path.v].exists
    /\ from_toml_str(args.kind, args.files[args.custom_path.v].contents).ok

Written(value) == StoredFile(Document(args.kind, value, "written"))

\* C21 as stated: init writes the default contents when the stored file is
\* missing, replaces the stored file by the parsed contents of the provided
\* file when there is one, and in both cases returns Ok with the path of the
\* saved file.
C21_Original ==
    (InitDone /\ Undisturbed) =>
        /\ (~args.custom_path.some /\ ~args.files[StoredPath].exists)
           => (data[StoredPath] = Written(new(args.kind)) /\ result = StorageOk(StoredPath))
        /\ CustomParses
           => /\ data[StoredPath]
                 = Written(from_toml_str(args.kind, args.files[args.custom_path.v].contents).val)
              /\ result = StorageOk(StoredPath)

(***************************************************************************)
(* A session: runs of the command line one after the other on the same     *)
(* files.  `data` holds the variables of the environment, the file system  *)
(* and the number of init runs that exited with status 0 so far (counted   *)
(* up to MaxInits).  What the launched programs answer and the file-system *)
(* call that fails are inputs of each run.  Changes the launched programs  *)
(* make are theirs, not the core's: only `spawned` records them.           *)
(***************************************************************************)
MaxInits == 2

\* a core command that stamps the stored timestamp after it ran
main_stamps_timestamp(command, io, env, files) ==
    [files |-> save("Data", [update_timestamp |-> 2], env, files).files,
     run |-> main(command,
                  [config_init |-> StorageErr(<<"IO">>), data_init |-> StorageErr(<<"IO">>),
                   fetch |-> fetch("Config", env, files),
                   output |-> io.output, sh |-> io.sh, rpmdb |-> io.rpmdb])]

\* main.rs:109: Data::init(None), made when Config::init did not fail
init_data(env, config_init) ==
    IF handle_storage_result(config_init.result).ok
    THEN init("Data", NoInitPath, env, config_init.files)
    ELSE config_init

\* what the storage calls of a run return, and the files they leave
StorageCalls(config_init, data_init, fetched) ==
    [config_init |-> config_init.result, data_init |-> data_init.result,
     fetch |-> fetched, files |-> data_init.files]

\* main.rs:108-109 for init; main.rs:119, :142 and :151 for the others
storage_calls(command, env, files) ==
    IF command.name = "init"
    THEN LET config_init == init("Config", command.config, env, files)
         IN  StorageCalls(config_init, init_data(env, config_init), FetchErr(<<"IO">>))
    ELSE StorageCalls(Stored(StorageErr(<<"IO">>), files), Stored(StorageErr(<<"IO">>), files),
                      fetch("Config", env, files))

\* main.rs:86-105 on what the storage calls and the launched programs return
main_with(command, io, storage) ==
    [files |-> storage.files,
     run |-> main(command,
                  [config_init |-> storage.config_init, data_init |-> storage.data_init,
                   fetch |-> storage.fetch,
                   output |-> io.output, sh |-> io.sh, rpmdb |-> io.rpmdb])]

\* main.rs:86-105, the storage calls of the subcommand made on `files`
main_on_files(command, io, env, files) ==
    main_with(command, io, storage_calls(command, env, files))

SessionVars ==
    [HOME : {Unset, Some("h")}, XDG_CONFIG_HOME : {Unset, Some("x")},
     XDG_DATA_HOME : {Unset}]

SessionFiles ==
    {files \in FileSystems :
        files[CustomPath] \in {Missing, StoredFile(Document("Config", ZypperConfig, "hand"))}}

\* zypper lists one update, or fails
SessionOutputs ==
    {CommandOutput(TRUE, 0, Bytes(<<Item("element", "update", FullAttrs)>>), Bytes(<<>>)),
     CommandOutput(TRUE, 1, Bytes(<<>>), Bytes(<<"e">>))}

\* the command given to sh exits with status 0, or with status 1
SessionShAnswers ==
    {[spawn |-> TRUE, wait |-> TRUE, status |-> st,
      stdout |-> Bytes(<<"o">>), stderr |-> Bytes(<<"e">>)] : st \in {0, 1}}

\* no package is installed
SessionRpmdb == [n \in WalkNames |-> RpmAnswer(TRUE, 1, Bytes(<<>>), Bytes(<<"e">>))]

SessionIo ==
    [output : SessionOutputs, sh : SessionShAnswers, rpmdb : {SessionRpmdb}]

SessionRuns ==
    [command : [name : {"init"}, config : {NoInitPath, Some(CustomPath)}],
     io : {CHOOSE io \in SessionIo : TRUE},
     fault : Faults]
    \cup [command : [name : {"check-update"}, download : BOOLEAN],
          io : SessionIo,
          fault : {NoFault, Fault("Config", "read_to_string")}]
    \cup [command : [name : {"update"}, gui : {FALSE}, no_confirm : BOOLEAN],
          io : {io \in SessionIo : io.output.status = 0},
          fault : {NoFault, Fault("Config", "read_to_string")}]
    \cup [command : [name : {"changelog"}, query : WalkQueries],
          io : {CHOOSE io \in SessionIo : TRUE},
          fault : {NoFault, Fault("Config", "read_to_string")}]

InitSession ==
    /\ data \in [vars : SessionVars, files : SessionFiles, inits : {0}]
    /\ Call("main", SessionRuns)

\* the run ends: its exit, the programs it launched and the files it leaves
SessionReturn(r) ==
    /\ pc' = "done"
    /\ result' = r.run.result
    /\ spawned' = r.run.spawned
    /\ data' = [data EXCEPT
                  !.files = r.files,
                  !.inits = IF args.command.name = "init" /\ r.run.result.ok
                               /\ data.inits < MaxInits
                            THEN data.inits + 1 ELSE data.inits]
    /\ UNCHANGED <<op, args>>

SessionMain ==
    /\ pc = "call"
    /\ op = "main"
    /\ SessionReturn(main_on_files(args.command, args.io,
                                   WithFault(data.vars, args.fault), data.files))

\* the next run of the command line
Again ==
    /\ pc = "done"
    /\ pc' = "call"
    /\ args' \in SessionRuns
    /\ result' = Pending
    /\ spawned' = <<>>
    /\ UNCHANGED <<op, data>>

NextSession == SessionMain \/ Again

SpecSession == InitSession /\ [][NextSession]_vars

\* a run of check-update, update or changelog is about to be made
CoreCommandCalled == pc = "call" /\ op = "main" /\ args.command.name # "init"

\* C22: whatever ran before, a run of check-update, update or changelog
\* (and so the check_update, download_update, do_update and
\* get_cached_changelogs it makes) leaves every stored file as it was: the
\* data file with the update timestamp, the configuration, and the cache the
\* configuration names.
C22_CoreOnlyReads == [][CoreCommandCalled => data'.files = data.files]_vars

\* check-update has listed an update and downloaded it, after an init that
\* copied the provided configuration; the files are the ones init left
C22_Witness ==
    /\ MainDone
    /\ args.command.name = "check-update"
    /\ data.inits = 1
    /\ result.ok
    /\ Len(spawned) = 2
    /\ fetch("Config", WithFault(data.vars, NoFault), data.files) = FetchOk(ZypperConfig)
    /\ fetch("Data", WithFault(data.vars, NoFault), data.files) = FetchOk(DefaultData)

\* an init run without --config is about to be made after an init run that
\* exited with status 0
RepeatedInitCalled ==
    /\ pc = "call"
    /\ op = "main"
    /\ args.command.name = "init"
    /\ ~args.command.config.some
    /\ data.inits > 0

\* what TomlStorage::init(None) does in the state for the stored kind
InitNone(kind) == init(kind, NoInitPath, WithFault(data.vars, args.fault), data.files)

\* the stored file of the kind is there, and the calls that find it succeed
FoundExisting(kind) ==
    /\ get_file_path(kind, WithFault(data.vars, args.fault)).ok
    /\ data.files[get_file_path(kind, WithFault(data.vars, args.fault)).val].exists
    /\ args.fault \notin {Fault(kind, "create_dir_all"), Fault(kind, "exists")}

\* creating the directory or examining the stored file fails on this run
InitDisturbed ==
    args.fault \in {Fault(kind, call) : kind \in Kinds, call \in {"create_dir_all", "exists"}}

\* C27: init(None) on a stored file that exists changes no file, and
\* returns FileAlreadyExists when the directory can be created and the file
\* examined; an init run without --config that follows an init run that
\* exited with status 0 changes no stored file, and exits with status 0
\* unless one of these two file-system calls fails, when it exits with
\* status 1.
C27_RepeatedInit ==
    [][/\ \A kind \in Kinds :
            (pc = "call" /\ FoundExisting(kind))
            => InitNone(kind) = Stored(StorageErr(<<"FileAlreadyExists">>), data.files)
       /\ RepeatedInitCalled
          => /\ data'.files = data.files
             /\ result'.val.status = (IF InitDisturbed THEN 1 ELSE 0)]_vars

\* C27 as stated: the same, with status 0 and FileAlreadyExists in every
\* run.
C27_Original ==
    [][/\ \A kind \in Kinds :
            (/\ pc = "call"
             /\ get_file_path(kind, WithFault(data.vars, args.fault)).ok
             /\ data.files[get_file_path(kind, WithFault(data.vars, args.fault)).val].exists)
            => InitNone(kind) = Stored(StorageErr(<<"FileAlreadyExists">>), data.files)
       /\ RepeatedInitCalled
          => /\ data'.files = data.files
             /\ result'.val.status = 0]_vars

\* a third init run has exited with status 0 and the configuration typed by
\* hand, which the first run found, is still the stored one
C27_Witness ==
    /\ MainDone
    /\ args.command.name = "init"
    /\ ~args.command.config.some
    /\ data.inits = MaxInits
    /\ result.val.status = 0
    /\ \E p \in StoredPaths("Config") :
          data.files[p] = StoredFile(Document("Config", ZypperConfig, "hand"))

(***************************************************************************)
(* More properties of the zypper parser, the walker, the command line and  *)
(* the archive reader.                                                     *)
(***************************************************************************)
\* the value of the attribute `key` of the item, if it has one
AttrOf(item, key) ==
    IF \E k \in DOMAIN item.attrs : item.attrs[k].ok /\ item.attrs[k].key = key
    THEN Some(item.attrs[CHOOSE k \in DOMAIN item.attrs :
                             item.attrs[k].ok /\ item.attrs[k].key = key].value)
    ELSE None

\* <update ...> with a name that is not empty; <update .../> is no start-element
NamedUpdateStart(item) ==
    /\ item.form = "element"
    /\ item.tag = "update"
    /\ AttrOf(item, "name").some
    /\ Len(AttrOf(item, "name").v) > 0

\* C23: the list zypper's check_update returns holds, in document order, one
\* item for each update start-element with a non-empty name and nothing
\* else, new_version being the edition attribute and old_version the
\* edition-old attribute, absent when the attribute is; markup the reader
\* accepts that has no update start-element gives the empty list, not an
\* error.
C23_OneItemPerStartElement ==
    ZypperDone =>
        LET doc == args.output.stdout.text
            hits == SelectSeq(doc, NamedUpdateStart)
            Accepted(item) == item.form # "malformed"
            UpdateStart(item) == item.form = "element" /\ item.tag = "update"
        IN  /\ result.ok
               => result.val = [k \in DOMAIN hits |->
                     PackageUpdateItem(AttrOf(hits[k], "name").v,
                                       AttrOf(hits[k], "edition"),
                                       AttrOf(hits[k], "edition-old"))]
            /\ (Succeeded /\ Count(doc, Accepted) = Len(doc) /\ Count(doc, UpdateStart) = 0)
               => result = Ok(<<>>)

\* two update start-elements, the first without edition-old, gave two items
\* in the order of the document
C23_Witness ==
    /\ ZypperDone
    /\ args.output.stdout.text
       = <<Item("element", "update", <<Attr("name", pkg), Attr("edition", v2)>>),
           Item("element", "update", FullAttrs)>>
    /\ result = Ok(<<PackageUpdateItem(pkg, Some(v2), None),
                     PackageUpdateItem(pkg, Some(v2), Some(v1))>>)

\* the entry cannot be listed as a directory, or its metadata cannot be read
Unreadable(node) == node.kind \in {"unlistable", "entry_err", "type_err"}

\* C24: a root that cannot be listed gives the IO error; an entry that is a
\* subdirectory that cannot be listed, or whose metadata cannot be read, is
\* dropped: the walk gives what it gives on the listing without that entry.
C24_RootSurfacesEntriesDropped ==
    WalkDone =>
        /\ args.path.kind # "dir" => result = Err(<<"IO">>)
        /\ \A i \in DOMAIN args.path.children :
              Unreadable(args.path.children[i])
              => result = get_dir_changelogs(args.query, Without(args.path, i), args.rpmdb)

\* an archive contributed between a subdirectory that cannot be listed and
\* an entry without metadata
C24_Witness ==
    /\ WalkDone
    /\ result.ok
    /\ Len(args.path.children) = 3
    /\ args.path.children[1].kind = "unlistable"
    /\ args.path.children[2].kind = "file"
    /\ Contributes(args.path.children[2].file)
    /\ args.path.children[3].kind = "entry_err"
    /\ result.val = PackageText(args.path.children[2].file)

CheckUpdateDone == MainDone /\ args.command.name = "check-update"

\* what check_update of the configured backend returned in this run
CheckedUpdates ==
    backend_check_update(get_package_manager(args.env.fetch.val.package).val[1],
                         args.env.output).result

\* check_update was called and returned a list that is not empty
UpdatesListed ==
    /\ args.env.fetch.ok
    /\ get_package_manager(args.env.fetch.val.package).ok
    /\ CheckedUpdates.ok
    /\ Len(CheckedUpdates.val) > 0

DownloadWanted ==
    args.command.download \/ args.env.fetch.val.service.download_in_background

\* the launches of sh, which only download_update makes in this command
DownloadLaunches == {i \in DOMAIN spawned : spawned[i].program = "sh"}

DownloadedPrinted ==
    \E i \in DOMAIN result.val.stdout :
        result.val.stdout[i] = Println("Updates downloaded.", <<>>)

\* C25: in a run of check-update the download command is launched at most
\* once; it is launched, its error reported or "Updates downloaded." printed
\* only when check_update returned a list that is not empty and --download
\* or download_in_background is set; and "Updates downloaded." is printed
\* exactly when download_update was then called and returned success.
C25_DownloadOnceAfterUpdates ==
    CheckUpdateDone =>
        /\ Cardinality(DownloadLaunches) <= 1
        /\ ~(UpdatesListed /\ DownloadWanted)
           => /\ DownloadLaunches = {}
              /\ ~DownloadedPrinted
              /\ UpdatesListed => result.ok
        /\ DownloadedPrinted
           <=> /\ UpdatesListed
               /\ DownloadWanted
               /\ download_update(args.env.fetch.val.package, args.env.sh).result.ok
        /\ DownloadedPrinted
           => /\ Cardinality(DownloadLaunches) = 1
              /\ args.env.sh.spawn /\ args.env.sh.status = 0
              /\ result.val.stdout[Len(result.val.stdout)]
                 = Println("Updates downloaded.", <<>>)

\* without --download, download_in_background made check-update download
\* the update it listed
C25_Witness ==
    /\ CheckUpdateDone
    /\ ~args.command.download
    /\ UpdatesListed
    /\ Cardinality(DownloadLaunches) = 1
    /\ result.val.status = 0
    /\ result.val.stdout[Len(result.val.stdout)] = Println("Updates downloaded.", <<>>)

\* the rpm query gave no timestamp: rpm was not launched, exited with an
\* error, or printed something whose first line is no number
QueryFailed(rpm) == \A t \in 0..9 : ~RpmReports(rpm, t)

\* C26: when the query for the installed package's changelog timestamp
\* fails, for whatever reason, the read of an archive that opens and matches
\* the query does not fail: the threshold is 0 and every entry with a
\* timestamp above 0 is returned, in the archive's order.
C26_FailedQueryIsZero ==
    (/\ ReadDone
     /\ args.file.status = "ok"
     /\ (args.query.some => IsPrefix(args.query.v, args.file.name)))
    => /\ QueryFailed(args.rpm) <=> ~get_installed_pkg_timestamp(args.rpm).ok
       /\ QueryFailed(args.rpm)
          => result = Ok([name |-> args.file.name,
                          changelogs |-> NewerThan(args.file.log, 0)])

\* rpm printed "(none)"; of an entry stamped 0 and a later one, the later
\* one was returned
C26_Witness ==
    /\ ReadDone
    /\ args.rpm.spawn /\ args.rpm.status = 0
    /\ args.rpm.stdout = Bytes(none_text)
    /\ \E i, j \in DOMAIN args.file.log :
          args.file.log[i].timestamp = 0 /\ args.file.log[j].timestamp > 0
    /\ result.ok
    /\ Len(result.val.changelogs) = Len(args.file.log) - 1

====
